---------------------------- MODULE Spec2Model ----------------------------
(***************************************************************************)
(* A model of the plexus agent runtime: the local point buffer             *)
(* (plexus/buffer.py), the ingest client's send path (plexus/client.py),   *)
(* the shell command executor (plexus/commands.py), the connector's        *)
(* connection loop and dispatch of inbound frames (plexus/connector.py),   *)
(* the stream manager (plexus/streaming.py) and the typed command          *)
(* registry (plexus/typed_commands.py).                                    *)
(*                                                                         *)
(* Each component has its own specification over the shared variables:     *)
(*   SpecBuffer      direct use of one buffer backend                      *)
(*   SpecClient      one caller of Plexus._send_points                     *)
(*   SpecClientConc  two threads calling Plexus._send_points               *)
(*   SpecExec        CommandExecutor.execute and cancel                    *)
(*   SpecConnector   PlexusConnector.connect, its handlers and disconnect  *)
(*   SpecStream      StreamManager's handlers and stream tasks             *)
(*   SpecClientAttr  one caller, and assignments to max_buffer_size        *)
(*   SpecStreamOrder start_stream and stop_stream in their order of arrival*)
(*   SpecCamera      camera streams, with fair delivery of cancellation    *)
(*   SpecCan         CAN streams and their status messages                 *)
(*   SpecSession     Plexus.session scopes and _make_point                 *)
(*   SpecTyped       CommandRegistry.execute                               *)
(*   SpecTimestamp   Plexus._normalize_ts_ms                               *)
(*   SpecDelay       RetryConfig.get_delay                                 *)
(*   SpecBufferConc  add and clear of one buffer from two threads          *)
(*   SpecReconnect   the connector's stream loops across connections       *)
(***************************************************************************)
EXTENDS Integers, Sequences, FiniteSets, TLC

(***************************************************************************)
(* Bounds of the model.                                                    *)
(***************************************************************************)
MaxCapacity == 3      \* largest max_size a buffer is constructed with
MaxPoints == 5        \* number of distinct points ever created
MaxBatch == 2         \* longest list of new points passed to one call
MaxRetries == 2       \* largest retry_config.max_retries
ConcRetries == 1      \* largest retry_config.max_retries when two threads share the client
MaxLines == 2         \* most output lines a shell command prints
MaxExecs == 2         \* execute requests handled one after the other
MaxMessages == 4      \* inbound frames handled by the connector
MaxTasks == 3         \* stream tasks created
MaxCalls == 2         \* typed commands handled one after the other
MaxConnects == 2      \* connection attempts after the first connection
MaxDepth == 2         \* session scopes open inside one another
MaxPersisted == 2     \* most rows found in the SQLite file when the client opens it
MaxAttempt == 3       \* largest attempt number passed to get_delay
RandomSteps == 4      \* values random.random() is drawn from
MaxFrames == 4        \* frames recorded on one connection
ConcCapacity == 2     \* largest max_size when two threads share the client
ConcPoints == 3       \* number of distinct points when two threads share the client

VARIABLES
    \* ---- buffer (plexus/buffer.py) ----
    backend,        \* "memory" (MemoryBuffer) or "sqlite" (SqliteBuffer)
    max_size,       \* self._max_size of the live buffer instance
    mem_buffer,     \* MemoryBuffer._buffer
    db,             \* the SQLite file: [rows: Seq([id, data]), seq: last AUTOINCREMENT id]
    conn_open,      \* SqliteBuffer._conn is open
    next_point,     \* number of points created so far (points are numbered)
    last_add,       \* history: the last add call [before, points, cap] or [valid |-> FALSE]
    at_close,       \* history: get_all() of the instance at its close(), until the next add or clear
    added_since_open,\* history: add was called on the live instance
    \* ---- ingest client (plexus/client.py) ----
    threads,        \* the callers of _send_points
    max_retries,    \* self.retry_config.max_retries
    max_buffer_size,\* self.max_buffer_size, the attribute of the client
    call,           \* per thread: the activation record of _send_points
    result,         \* per thread: how the last call ended
    last_body,      \* history: per thread, body of the latest POST of the call
    pending,        \* history: points of exhausted calls neither accepted nor evicted since
    failed_run,     \* history: new points of exhausted calls since the last clear
    \* ---- shell executor (plexus/commands.py) ----
    allowlist,      \* CommandExecutor.allowlist: [given |-> FALSE] is None
    denylist,       \* CommandExecutor.denylist (after the default is applied)
    ex,             \* the activation record of CommandExecutor.execute
    current_process,\* CommandExecutor._current_process: "None" or "Popen"
    proc,           \* the child process: "none", "alive", "exited", "terminated", "killed"
    ws_open,        \* the websocket accepts sends
    running,        \* what running_flag() returns
    out,            \* history: the frames handed to ws.send by this execution
    requests,       \* history: number of inbound requests handled
    orphans,        \* shell children of earlier commands that are alive and no longer tracked
    \* ---- connector (plexus/connector.py) ----
    authenticated,  \* PlexusConnector._authenticated
    ws,             \* PlexusConnector._ws: "ws" (the socket of connect()) or "None"
    conn,           \* the activation record of PlexusConnector.connect
    \* ---- stream manager (plexus/streaming.py) ----
    sensor_hub,     \* StreamManager.sensor_hub is not None
    camera_hub,     \* StreamManager.camera_hub: [given, cameras]
    can_adapters,   \* StreamManager.can_adapters: set of [channel, is_up]
    tasks,          \* every asyncio task created by a start handler, in order
    active_streams,         \* _active_streams: sensor stream id -> task, 0 if absent
    active_camera_streams,  \* _active_camera_streams: camera id -> task
    active_can_streams,     \* _active_can_streams: channel -> task
    can_instances,  \* _can_instances: channel -> adapter, 0 if absent
    recording,      \* StreamManager._recording
    arrived,        \* history: the last two start_stream / stop_stream messages handled
    last_status,    \* history: the last message a CAN handler or task gave to on_status
    \* ---- functions without state (client.py, config.py) ----
    arg,            \* the arguments of the call, <<>> when there is none
    ret,            \* <<the value returned>>, <<>> before the call returns
    \* ---- two threads on one buffer (plexus/buffer.py) ----
    lock,           \* the thread inside `with self._lock`, "" when the lock is free
    adding,         \* the thread in add(points): its position, points and locals
    clearing,       \* the thread in clear(): its position
    \* ---- frames on the connector's socket (plexus/connector.py) ----
    wire,           \* history: the types of the frames sent on the current connection
    loops,          \* the connector's stream_loop and camera_loop tasks
    \* ---- sessions of the client (plexus/client.py) ----
    session_id,     \* Plexus._session_id: [set |-> FALSE] is None
    scopes,         \* the session ids of the open `with px.session(...)` blocks, outermost first
    point,          \* history: the last point _make_point built and the blocks open then
    exited,         \* history: how the last block was left
    \* ---- typed commands (plexus/typed_commands.py) ----
    tc,             \* the activation record of CommandRegistry.execute
    results         \* history: the command_result frames handed to ws.send

bufVars == <<backend, max_size, mem_buffer, db, conn_open, next_point,
             last_add, added_since_open, at_close>>
clientVars == <<threads, max_retries, max_buffer_size, call, result, last_body,
                pending, failed_run>>
execVars == <<allowlist, denylist, ex, current_process, proc, ws_open,
              running, out, requests>>
connVars == <<authenticated, ws, conn>>
streamVars == <<sensor_hub, camera_hub, can_adapters, tasks, active_streams,
                active_camera_streams, active_can_streams, can_instances,
                recording>>
cmdVars == <<tc, results>>
sessVars == <<session_id, scopes, point, exited>>
histVars == <<arrived, last_status>>
osVars == <<orphans>>
fnVars == <<arg, ret>>
lockVars == <<lock, adding, clearing>>
wireVars == <<wire, loops>>
vars == <<bufVars, clientVars, execVars, connVars, streamVars, cmdVars, sessVars, histVars, osVars, fnVars, lockVars, wireVars>>

(***************************************************************************)
(* Points.  A point is the dict built by the tests' _make_points and by    *)
(* Plexus._make_point, reduced to its metric and value.                    *)
(***************************************************************************)
Point(n) == [metric |-> "m", value |-> n]

NewPoints(first, k) == [i \in 1..k |-> Point(first + i)]

\* json.dumps of a point: the text stored in the data column.
JsonDumps(p) == <<"{", "metric", p.metric, "value", p.value, "}">>

\* json.loads of a stored text.
JsonLoads(s) == [metric |-> s[3], value |-> s[5]]

Range(s) == {s[i] : i \in 1..Len(s)}

\* The last n elements of s (all of s when it is shorter).
LastN(s, n) == IF Len(s) > n THEN SubSeq(s, Len(s) - n + 1, Len(s)) ELSE s

(***************************************************************************)
(* MemoryBuffer                                                            *)
(***************************************************************************)
\* self._buffer[overflow:]
MemoryBuffer_slice_mut(buffer, overflow) ==
    SubSeq(buffer, 1, Len(buffer) - overflow)

MemoryBuffer_slice(buffer, overflow) ==
    SubSeq(buffer, overflow + 1, Len(buffer))

MemoryBuffer_add(buffer, max, points) ==
    LET extended == buffer \o points
    IN  IF Len(extended) > max
        THEN MemoryBuffer_slice(extended, Len(extended) - max)
        ELSE extended

MemoryBuffer_get_all(buffer) == buffer

MemoryBuffer_clear(buffer) == <<>>

MemoryBuffer_size(buffer) == Len(buffer)

(***************************************************************************)
(* SqliteBuffer.  The table is kept as the sequence of its rows in id      *)
(* order; AUTOINCREMENT never reuses an id.                                *)
(***************************************************************************)
SqliteBuffer_insert(d, points) ==
    [rows |-> d.rows \o [i \in 1..Len(points) |->
                            [id |-> d.seq + i, data |-> JsonDumps(points[i])]],
     seq  |-> d.seq + Len(points)]

\* SELECT id FROM points ORDER BY id LIMIT n
SqliteBuffer_oldest_ids(rows, n) == {rows[i].id : i \in 1..n}

SqliteBuffer__evict_mut(d, max) == d

SqliteBuffer__evict(d, max) ==
    LET count == Len(d.rows)
    IN  IF count > max
        THEN LET del == SqliteBuffer_oldest_ids(d.rows, count - max)
             IN  [d EXCEPT !.rows = SelectSeq(d.rows, LAMBDA r : r.id \notin del)]
        ELSE d

\* A variant that evicts down to max_size when it opens the file.
SqliteBuffer_init_mut(d, max) == SqliteBuffer__evict(d, max)

\* __init__ on an existing file: CREATE TABLE IF NOT EXISTS leaves the rows.
SqliteBuffer_init(d, max) == d

SqliteBuffer_add(d, max, points) ==
    IF points = <<>>
    THEN d
    ELSE SqliteBuffer__evict(SqliteBuffer_insert(d, points), max)

SqliteBuffer_get_all(d) == [i \in 1..Len(d.rows) |-> JsonLoads(d.rows[i].data)]

SqliteBuffer_clear(d) == [d EXCEPT !.rows = <<>>]

SqliteBuffer_size(d) == Len(d.rows)

(***************************************************************************)
(* The BufferBackend interface on the live instance.                       *)
(***************************************************************************)
get_all ==
    IF backend = "memory" THEN MemoryBuffer_get_all(mem_buffer)
    ELSE SqliteBuffer_get_all(db)

size ==
    IF backend = "memory" THEN MemoryBuffer_size(mem_buffer)
    ELSE SqliteBuffer_size(db)

\* The buffer after add(points), as the pair of backing stores.
BufferAfterAdd(points) ==
    IF backend = "memory"
    THEN [mem |-> MemoryBuffer_add(mem_buffer, max_size, points), db |-> db]
    ELSE [mem |-> mem_buffer, db |-> SqliteBuffer_add(db, max_size, points)]

ContentOf(b) ==
    IF backend = "memory" THEN MemoryBuffer_get_all(b.mem)
    ELSE SqliteBuffer_get_all(b.db)

\* add(points) on the live instance.
DoAdd(points) ==
    LET after == BufferAfterAdd(points)
    IN  /\ mem_buffer' = after.mem
        /\ db' = after.db
        /\ added_since_open' = TRUE

\* The points that add(points) drops for capacity.
EvictedBy(points) ==
    Range(get_all \o points) \ Range(ContentOf(BufferAfterAdd(points)))

DoClear ==
    /\ mem_buffer' = IF backend = "memory" THEN MemoryBuffer_clear(mem_buffer)
                     ELSE mem_buffer
    /\ db' = IF backend = "sqlite" THEN SqliteBuffer_clear(db) ELSE db

NoAdd == [valid |-> FALSE]

NoClose == [valid |-> FALSE, content |-> <<>>]

(***************************************************************************)
(* SpecBuffer: one buffer used directly.                                   *)
(***************************************************************************)
\* The ids the dashboard uses in its stream commands.
SensorIds == {"s1", "s2"}

CameraIds == {"cam0"}

Channels == {"can0"}

\* connect() in the receive loop of the first connection; the fields are
\* described at Connected.
FirstConnection ==
    [pc |-> "recv", auth_seen |-> FALSE, last_frame |-> "none", dispatched |-> FALSE,
     long |-> FALSE, exit |-> "none", k |-> 0, after_long |-> FALSE,
     waited |-> FALSE, secs |-> 0, attempts |-> 0,
     queued |-> FALSE, cancel |-> "none"]

\* A connector that has handled no frame.
ConnectorIdle == authenticated = FALSE /\ ws = "ws" /\ conn = FirstConnection

\* A stream manager without hardware and without streams.
StreamIdle ==
    /\ sensor_hub = FALSE
    /\ camera_hub = [given |-> FALSE, cameras |-> {}]
    /\ can_adapters = {}
    /\ tasks = <<>>
    /\ active_streams = [i \in SensorIds |-> 0]
    /\ active_camera_streams = [i \in CameraIds |-> 0]
    /\ active_can_streams = [i \in Channels |-> 0]
    /\ can_instances = [i \in Channels |-> 0]
    /\ recording = FALSE
    /\ arrived = <<>>
    /\ last_status = ""

\* No call of a function without state.
FnIdle == arg = <<>> /\ ret = <<>>

\* A buffer no two threads contend for.
LockIdle == lock = "" /\ adding = [pc |-> "idle"] /\ clearing = [pc |-> "idle"]

\* A connector whose frames are not recorded.
WireIdle == wire = <<>> /\ loops = <<>>

\* self._session_id = None
NoSession == [set |-> FALSE, id |-> ""]

NoPoint == [made |-> FALSE, has |-> FALSE, session_id |-> "", scopes |-> <<>>]

\* A client outside every session scope that has built no point.
SessionIdle ==
    /\ session_id = NoSession
    /\ scopes = <<>>
    /\ point = NoPoint
    /\ exited = "none"

\* A command registry that is not used.
TypedIdle == tc = [pc |-> "idle"] /\ results = <<>>

\* An executor that is not used.
ExecIdle ==
    /\ allowlist = [given |-> FALSE, patterns |-> <<>>]
    /\ denylist = <<>>
    /\ ex = [pc |-> "idle"]
    /\ current_process = "None"
    /\ proc = "none"
    /\ ws_open = TRUE
    /\ running = TRUE
    /\ out = <<>>
    /\ requests = 0
    /\ orphans = 0

ClientIdle ==
    /\ threads = {}
    /\ max_retries = 0
    /\ max_buffer_size = 0
    /\ call = <<>>
    /\ result = <<>>
    /\ last_body = <<>>
    /\ pending = {}
    /\ failed_run = <<>>

BufferInit ==
    /\ backend \in {"memory", "sqlite"}
    /\ max_size \in 0..MaxCapacity
    /\ mem_buffer = <<>>
    /\ db = [rows |-> <<>>, seq |-> 0]
    /\ conn_open = TRUE
    /\ next_point = 0
    /\ last_add = NoAdd
    /\ at_close = NoClose
    /\ added_since_open = FALSE

InitBuffer == BufferInit /\ ClientIdle /\ ExecIdle /\ ConnectorIdle /\ StreamIdle /\ TypedIdle /\ SessionIdle /\ FnIdle /\ LockIdle /\ WireIdle

\* buf.add(points), points being k fresh points
BufAdd(k) ==
    /\ conn_open
    /\ next_point + k <= MaxPoints
    /\ DoAdd(NewPoints(next_point, k))
    /\ at_close' = NoClose
    /\ last_add' = [valid |-> TRUE, before |-> get_all,
                    points |-> NewPoints(next_point, k), cap |-> max_size]
    /\ next_point' = next_point + k
    /\ UNCHANGED <<backend, max_size, conn_open, clientVars, execVars, connVars, streamVars, cmdVars, sessVars, histVars, osVars, fnVars, lockVars, wireVars>>

\* buf.clear()
BufClear ==
    /\ conn_open
    /\ DoClear
    /\ last_add' = NoAdd
    /\ at_close' = NoClose
    /\ UNCHANGED <<backend, max_size, conn_open, next_point, added_since_open,
                   clientVars, execVars, connVars, streamVars, cmdVars, sessVars, histVars, osVars, fnVars, lockVars, wireVars>>

\* SqliteBuffer.close()
BufClose ==
    /\ backend = "sqlite"
    /\ conn_open
    /\ conn_open' = FALSE
    /\ last_add' = NoAdd
    /\ at_close' = [valid |-> TRUE, content |-> get_all]
    /\ UNCHANGED <<backend, max_size, mem_buffer, db, next_point,
                   added_since_open, clientVars, execVars, connVars, streamVars, cmdVars, sessVars, histVars, osVars, fnVars, lockVars, wireVars>>

\* SqliteBuffer(path, max_size=m) on the file of a closed instance
BufReopen(m) ==
    /\ backend = "sqlite"
    /\ ~conn_open
    /\ conn_open' = TRUE
    /\ max_size' = m
    /\ added_since_open' = FALSE
    /\ last_add' = NoAdd
    /\ db' = SqliteBuffer_init(db, m)
    /\ UNCHANGED <<backend, mem_buffer, next_point, at_close, clientVars, execVars, connVars, streamVars, cmdVars, sessVars, histVars, osVars, fnVars, lockVars, wireVars>>

NextBuffer ==
    \/ \E k \in 0..MaxBatch : BufAdd(k)
    \/ BufClear
    \/ BufClose
    \/ \E m \in 0..MaxCapacity : BufReopen(m)

SpecBuffer == InitBuffer /\ [][NextBuffer]_vars


(***************************************************************************)
(* Ingest client: Plexus._send_points                                      *)
(***************************************************************************)
\* What one POST attempt can end as: an exception of requests, or a response.
Outcomes ==
    {[kind |-> "Timeout", status |-> 0], [kind |-> "ConnectionError", status |-> 0]}
    \cup {[kind |-> "response", status |-> s] :
            s \in {200, 400, 401, 403, 404, 422, 429, 500}}

\* The if/elif chain over response.status_code.
Classify(status) ==
    IF status = 401 THEN "auth"
    ELSE IF status = 403 THEN "auth"
    ELSE IF status \in {400, 422} THEN "bad_request"
    ELSE IF status = 429 THEN "rate_limited"
    ELSE IF status >= 500 THEN "server_error"
    ELSE IF status < 400 THEN "success"
    ELSE "other_4xx"

OutcomeClass(o) == IF o.kind = "response" THEN Classify(o.status) ELSE o.kind

\* A variant that also retries a bad request.
Retryable_mut(o) ==
    OutcomeClass(o) \in {"Timeout", "ConnectionError", "rate_limited", "server_error",
                         "bad_request"}

\* The branches that set last_error and continue or break.
Retryable(o) ==
    OutcomeClass(o) \in {"Timeout", "ConnectionError", "rate_limited", "server_error"}

\* last_error as set by the retryable branches.
LastError(o) ==
    [type |-> "PlexusError",
     msg  |-> CASE OutcomeClass(o) = "rate_limited" -> "Rate limited (429)"
                [] OutcomeClass(o) = "server_error" -> "Server error"
                [] OutcomeClass(o) = "Timeout" -> "Request timed out"
                [] OTHER -> "Connection failed"]

\* The exception raised at once by the non-retryable branches.
Raised(o) ==
    CASE OutcomeClass(o) = "auth" ->
            [type |-> "AuthenticationError",
             msg |-> IF o.status = 401 THEN "Invalid API key"
                     ELSE "API key doesn't have write permissions"]
      [] OutcomeClass(o) = "bad_request" -> [type |-> "PlexusError", msg |-> "Bad request"]
      [] OTHER -> [type |-> "PlexusError", msg |-> "API error"]

NoError == [type |-> "None", msg |-> ""]

NoOutcome == [kind |-> "none", status |-> 0]

\* posts, outcome and hist are history: the POSTs made by the call, how the
\* latest ended and what each of them ended as, in order.
IdleCall == [pc |-> "idle", points |-> <<>>, all_points |-> <<>>,
             attempt |-> 0, last_error |-> NoError, posts |-> 0,
             outcome |-> NoOutcome, hist |-> <<>>]

NoResult == [kind |-> "none", error |-> NoError, points |-> <<>>,
             snapshot |-> <<>>]

\* all_points = self._get_buffered_points() + points
AllPoints_mut(buffered, points) == points \o buffered

AllPoints(buffered, points) == buffered \o points

\* the argument of self._add_to_buffer after the retry loop
PointsToBuffer_mut(points, all_points) == all_points

PointsToBuffer(points, all_points) == points

\* the stores after self._clear_buffer()
Plexus__clear_buffer_mut == [mem |-> mem_buffer, db |-> db]

Plexus__clear_buffer ==
    [mem |-> IF backend = "memory" THEN MemoryBuffer_clear(mem_buffer) ELSE mem_buffer,
     db  |-> IF backend = "sqlite" THEN SqliteBuffer_clear(db) ELSE db]

\* The number of points the callers create between them.
PointLimit == IF Cardinality(threads) > 1 THEN ConcPoints ELSE MaxPoints

ClientInit(T, R) ==
    /\ threads = T
    /\ max_retries \in 0..R
    /\ max_buffer_size = max_size
    /\ call = [t \in T |-> IdleCall]
    /\ result = [t \in T |-> NoResult]
    /\ last_body = [t \in T |-> <<>>]
    /\ pending = {}
    /\ failed_run = <<>>

\* Entry of _send_points(points) with k fresh points: snapshot the buffer.
SendPoints(t, k) ==
    /\ call[t].pc = "idle"
    /\ next_point + k <= PointLimit
    /\ LET points == NewPoints(next_point, k)
       IN  /\ call' = [call EXCEPT ![t] =
                        [pc |-> "post", points |-> points,
                         all_points |-> AllPoints(get_all, points),
                         attempt |-> 0, last_error |-> NoError, posts |-> 0,
                         outcome |-> NoOutcome, hist |-> <<>>]]
           /\ result' = [result EXCEPT ![t] =
                          [NoResult EXCEPT !.points = points, !.snapshot = get_all]]
    /\ next_point' = next_point + k
    /\ UNCHANGED <<backend, max_size, mem_buffer, db, conn_open, last_add, at_close,
                   added_since_open, threads, max_retries, max_buffer_size, last_body, pending,
                   failed_run, execVars, connVars, streamVars, cmdVars, sessVars, histVars, osVars, fnVars, lockVars, wireVars>>

\* History: what an attempt ended as.  A retryable failure is a timeout, a
\* connection error, a 429 or a status of 500 and above; a success is a status
\* below 400.
RetryableFailure(o) ==
    \/ o.kind \in {"Timeout", "ConnectionError"}
    \/ o.kind = "response" /\ (o.status = 429 \/ o.status >= 500)

AttemptClass(o) ==
    IF RetryableFailure(o) THEN "retryable"
    ELSE IF o.kind = "response" /\ o.status < 400 THEN "success"
    ELSE "other"

\* A variant that allows one attempt more.
MayRetry_mut(attempt) == attempt <= max_retries

\* if attempt < self.retry_config.max_retries: sleep and continue; else break
MayRetry(attempt) == attempt < max_retries

\* One iteration of the retry loop: the POST and the branch on its outcome.
PostAttempt(t, o) ==
    /\ call[t].pc = "post"
    /\ last_body' = [last_body EXCEPT ![t] = call[t].all_points]
    /\ IF OutcomeClass(o) = "success"
       THEN /\ call' = [call EXCEPT ![t].pc = "clear",
                                     ![t].posts = call[t].posts + 1,
                                     ![t].outcome = o,
                                     ![t].hist = Append(call[t].hist, AttemptClass(o))]
            /\ pending' = pending \ Range(call[t].all_points)
            /\ UNCHANGED result
       ELSE IF Retryable(o)
       THEN /\ call' = [call EXCEPT
                          ![t].last_error = LastError(o),
                          ![t].posts = call[t].posts + 1,
                          ![t].outcome = o,
                          ![t].hist = Append(call[t].hist, AttemptClass(o)),
                          ![t].attempt = IF MayRetry(call[t].attempt)
                                         THEN call[t].attempt + 1
                                         ELSE call[t].attempt,
                          ![t].pc = IF MayRetry(call[t].attempt)
                                    THEN "post" ELSE "buffer"]
            /\ UNCHANGED <<pending, result>>
       ELSE /\ call' = [call EXCEPT ![t].pc = "done",
                                     ![t].posts = call[t].posts + 1,
                                     ![t].outcome = o,
                                     ![t].hist = Append(call[t].hist, AttemptClass(o))]
            /\ result' = [result EXCEPT ![t].kind = "raised",
                                        ![t].error = Raised(o)]
            /\ UNCHANGED pending
    /\ UNCHANGED <<bufVars, threads, max_retries, max_buffer_size, failed_run, execVars, connVars, streamVars, cmdVars, sessVars, histVars, osVars, fnVars, lockVars, wireVars>>

\* Success: self._clear_buffer(); return True
ClearBuffer(t) ==
    /\ call[t].pc = "clear"
    /\ mem_buffer' = Plexus__clear_buffer.mem
    /\ db' = Plexus__clear_buffer.db
    /\ call' = [call EXCEPT ![t].pc = "done"]
    /\ result' = [result EXCEPT ![t].kind = "True"]
    /\ failed_run' = <<>>
    /\ last_add' = NoAdd
    /\ at_close' = NoClose
    /\ UNCHANGED <<backend, max_size, conn_open, next_point, added_since_open,
                   threads, max_retries, max_buffer_size, last_body, pending, execVars, connVars, streamVars, cmdVars, sessVars, histVars, osVars, fnVars, lockVars, wireVars>>

\* Retries exhausted: self._add_to_buffer(points); raise last_error
AddToBuffer(t) ==
    /\ call[t].pc = "buffer"
    /\ DoAdd(PointsToBuffer(call[t].points, call[t].all_points))
    /\ call' = [call EXCEPT ![t].pc = "done"]
    /\ result' = [result EXCEPT ![t].kind = "exhausted",
                                ![t].error = call[t].last_error]
    /\ pending' = (pending \cup Range(call[t].points))
                        \ EvictedBy(PointsToBuffer(call[t].points, call[t].all_points))
    /\ failed_run' = failed_run \o call[t].points
    /\ last_add' = NoAdd
    /\ at_close' = NoClose
    /\ UNCHANGED <<backend, max_size, conn_open, next_point, threads,
                   max_retries, max_buffer_size, last_body, execVars, connVars, streamVars, cmdVars, sessVars, histVars, osVars, fnVars, lockVars, wireVars>>

\* The caller has the return value or the exception; the activation is gone.
Return(t) ==
    /\ call[t].pc = "done"
    /\ call' = [call EXCEPT ![t] = IdleCall]
    /\ result' = [result EXCEPT ![t] = NoResult]
    /\ last_body' = [last_body EXCEPT ![t] = <<>>]
    /\ UNCHANGED <<bufVars, threads, max_retries, max_buffer_size, pending, failed_run, execVars, connVars, streamVars, cmdVars, sessVars, histVars, osVars, fnVars, lockVars, wireVars>>

NextClient ==
    \/ \E t \in threads, k \in 0..MaxBatch : SendPoints(t, k)
    \/ \E t \in threads, o \in Outcomes : PostAttempt(t, o)
    \/ \E t \in threads : ClearBuffer(t)
    \/ \E t \in threads : AddToBuffer(t)
    \/ \E t \in threads : Return(t)

\* SqliteBuffer.__init__ on a file that earlier runs left n rows in.
PersistedFile(n) ==
    [rows |-> [i \in 1..n |-> [id |-> i, data |-> JsonDumps(Point(i))]],
     seq  |-> n]

\* One caller.  A persistent buffer opens whatever file the last run left.
InitClient ==
    /\ backend \in {"memory", "sqlite"}
    /\ max_size \in 0..MaxCapacity
    /\ mem_buffer = <<>>
    /\ \E n \in 0..MaxPersisted :
          /\ backend = "memory" => n = 0
          /\ db = PersistedFile(n)
          /\ next_point = n
    /\ conn_open = TRUE
    /\ last_add = NoAdd
    /\ at_close = NoClose
    /\ added_since_open = FALSE
    /\ ClientInit({1}, MaxRetries)
    /\ ExecIdle
    /\ ConnectorIdle
    /\ StreamIdle /\ TypedIdle /\ SessionIdle /\ FnIdle /\ LockIdle /\ WireIdle

SpecClient == InitClient /\ [][NextClient]_vars

\* client.max_buffer_size = n: the caller assigns the attribute between two
\* calls.  __init__ passed its first value to the buffer; nothing reads it later.
SetMaxBufferSize(n) ==
    /\ \A t \in threads : call[t].pc = "idle"
    /\ n # max_buffer_size
    /\ max_buffer_size' = n
    /\ UNCHANGED <<bufVars, threads, max_retries, call, result, last_body, pending,
                   failed_run, execVars, connVars, streamVars, cmdVars, sessVars, histVars, osVars, fnVars, lockVars, wireVars>>

NextClientAttr ==
    \/ NextClient
    \/ \E n \in 0..MaxCapacity : SetMaxBufferSize(n)

\* One caller that also assigns max_buffer_size.
SpecClientAttr == InitClient /\ [][NextClientAttr]_vars

\* Two threads on one client with the default MemoryBuffer.
InitClientConc ==
    /\ BufferInit
    /\ backend = "memory"
    /\ max_size \in 1..ConcCapacity
    /\ ClientInit({1, 2}, ConcRetries)
    /\ ExecIdle
    /\ ConnectorIdle
    /\ StreamIdle /\ TypedIdle /\ SessionIdle /\ FnIdle /\ LockIdle /\ WireIdle

SpecClientConc == InitClientConc /\ [][NextClient]_vars


(***************************************************************************)
(* Shell executor: CommandExecutor (plexus/commands.py).  Command strings  *)
(* and glob patterns are sequences of characters.                          *)
(***************************************************************************)
DEFAULT_COMMAND_DENYLIST ==
    << <<"r", "m", " ", "-", "r", "f", " ", "*">>,
       <<"r", "m", " ", "-", "r", "f", " ", "/">>,
       <<"r", "m", " ", "-", "r", "f", " ", "/", "*">>,
       <<"d", "d", " ", "*">>,
       <<"m", "k", "f", "s", "*">>,
       <<"s", "h", "u", "t", "d", "o", "w", "n", "*">>,
       <<"r", "e", "b", "o", "o", "t", "*">>,
       <<"f", "o", "r", "m", "a", "t", "*">>,
       <<">", " ", "/", "d", "e", "v", "/", "*">>,
       <<":", "(", ")", "{", " ", ":", "|", ":", "&", " ", "}", ";", ":">> >>

\* fnmatch.fnmatch on POSIX for patterns without a bracket expression:
\* "*" matches any run of characters, "?" any one character.
RECURSIVE fnmatch(_, _)
fnmatch(name, pat) ==
    IF pat = <<>> THEN name = <<>>
    ELSE IF Head(pat) = "*"
         THEN \/ fnmatch(name, Tail(pat))
              \/ name # <<>> /\ fnmatch(Tail(name), pat)
    ELSE IF name = <<>> THEN FALSE
    ELSE /\ (Head(pat) = "?" \/ Head(pat) = Head(name))
         /\ fnmatch(Tail(name), Tail(pat))

\* str.strip() for the blank
RECURSIVE lstrip(_)
lstrip(str) == IF str # <<>> /\ Head(str) = " " THEN lstrip(Tail(str)) ELSE str

RECURSIVE rstrip(_)
rstrip(str) ==
    IF str # <<>> /\ str[Len(str)] = " "
    THEN rstrip(SubSeq(str, 1, Len(str) - 1)) ELSE str

strip(str) == rstrip(lstrip(str))

\* fnmatch.fnmatch(command, pattern) or fnmatch.fnmatch(command.strip(), pattern)
Matches(command, pattern) ==
    fnmatch(command, pattern) \/ fnmatch(strip(command), pattern)

\* Index of the first pattern of the list that the command matches, 0 if none.
FirstMatch(command, patterns) ==
    IF \E i \in 1..Len(patterns) : Matches(command, patterns[i])
    THEN CHOOSE i \in 1..Len(patterns) :
            /\ Matches(command, patterns[i])
            /\ \A j \in 1..(i - 1) : ~Matches(command, patterns[j])
    ELSE 0

Reason(text, pattern) == [text |-> text, pattern |-> pattern]

\* A variant that consults the allowlist before the denylist.
is_command_allowed_mut(command, allow, deny) ==
    IF ~allow.given \/ allow.patterns = <<>>
    THEN [allowed |-> FALSE,
          reason |-> Reason("Shell execution disabled (no allowlist configured)", <<>>)]
    ELSE IF FirstMatch(command, allow.patterns) # 0
    THEN [allowed |-> TRUE, reason |-> Reason("", <<>>)]
    ELSE IF FirstMatch(command, deny) # 0
    THEN [allowed |-> FALSE,
          reason |-> Reason("Command blocked by denylist: matches",
                            deny[FirstMatch(command, deny)])]
    ELSE [allowed |-> FALSE, reason |-> Reason("Command not in allowlist", <<>>)]

\* CommandExecutor.is_command_allowed: (allowed, reason)
is_command_allowed(command, allow, deny) ==
    IF ~allow.given \/ allow.patterns = <<>>
    THEN [allowed |-> FALSE,
          reason |-> Reason("Shell execution disabled (no allowlist configured)", <<>>)]
    ELSE IF FirstMatch(command, deny) # 0
    THEN [allowed |-> FALSE,
          reason |-> Reason("Command blocked by denylist: matches",
                            deny[FirstMatch(command, deny)])]
    ELSE IF FirstMatch(command, allow.patterns) # 0
    THEN [allowed |-> TRUE, reason |-> Reason("", <<>>)]
    ELSE [allowed |-> FALSE, reason |-> Reason("Command not in allowlist", <<>>)]

\* The command strings of the execute frames.
Commands ==
    { <<>>,
      <<"l", "s">>,
      <<" ", "l", "s", " ">>,
      <<"r", "m", " ", "-", "r", "f", " ", "/">>,
      <<"c", "a", "t", " ", "'", "x">> }

\* The allowlists an executor is constructed with (None, empty, or patterns).
Allowlists ==
    { [given |-> FALSE, patterns |-> <<>>],
      [given |-> TRUE, patterns |-> <<>>],
      [given |-> TRUE, patterns |-> << <<"*">> >>],
      [given |-> TRUE, patterns |-> << <<"l", "s", "*">> >>],
      [given |-> TRUE, patterns |-> << <<"c", "a", "t", " ", "*">>, <<"r", "m", " ", "*">> >>] }

\* The denylist arguments: None (the default list applies), empty, or a list.
Denylists ==
    { [given |-> FALSE, patterns |-> <<>>],
      [given |-> TRUE, patterns |-> <<>>],
      [given |-> TRUE, patterns |-> << <<"l", "s">> >>] }

CmdIds == {"x1", "cmd"}

\* shlex.split raises ValueError on a quotation that is not closed.
QuoteCount(command) == Cardinality({i \in 1..Len(command) : command[i] = "'"})

ShlexFails(command) == QuoteCount(command) % 2 = 1

Frame(id, event, text) == [id |-> id, event |-> event, text |-> text]

NoText == [prefix |-> "", reason |-> Reason("", <<>>)]

\* await ws.send(frame): the frame is handed to the socket, which raises
\* ConnectionClosed when it is closed.
WsSend(frame) == out' = Append(out, [frame |-> frame, ok |-> ws_open])

ExecInit ==
    /\ allowlist \in Allowlists
    /\ \E d \in Denylists :
          denylist = IF d.given THEN d.patterns ELSE DEFAULT_COMMAND_DENYLIST
    /\ ex = [pc |-> "idle"]
    /\ current_process = "None"
    /\ proc = "none"
    /\ ws_open = TRUE
    /\ running = TRUE
    /\ out = <<>>
    /\ requests = 0
    /\ orphans = 0

\* A child of an earlier command that nothing killed or reaped is still
\* alive when the next command is handled.
LeftRunning(child) == IF child = "alive" THEN orphans + 1 ELSE orphans

Activation(pc, command, id, check) ==
    [pc |-> pc, command |-> command, id |-> id, allowed |-> check.allowed,
     reason |-> check.reason, lines |-> 0, spawned |-> FALSE, raised |-> FALSE]

\* execute(data, ws, running_flag) up to the policy decision.
Execute(command, id) ==
    /\ ex.pc \in {"idle", "done"}
    /\ requests < MaxExecs
    /\ requests' = requests + 1
    /\ LET check == is_command_allowed(command, allowlist, denylist)
       IN  IF command = <<>>
           THEN /\ ex' = Activation("done", command, id, [allowed |-> FALSE,
                                                         reason |-> Reason("", <<>>)])
                /\ out' = <<>>
           ELSE IF ~check.allowed
           THEN /\ ex' = [Activation("done", command, id, check)
                            EXCEPT !.raised = ~ws_open]
                /\ out' = << [frame |-> Frame(id, "error",
                                              [prefix |-> "Command rejected: ",
                                               reason |-> check.reason]),
                              ok |-> ws_open] >>
           ELSE /\ ex' = Activation("ack", command, id, check)
                /\ out' = <<>>
    /\ proc' = "none"
    /\ orphans' = LeftRunning(proc)
    /\ UNCHANGED <<allowlist, denylist, current_process, ws_open, running>>

\* await ws.send(ack); a failed send raises out of execute.
SendAck ==
    /\ ex.pc = "ack"
    /\ WsSend(Frame(ex.id, "ack", NoText))
    /\ ex' = IF ws_open THEN [ex EXCEPT !.pc = "start"]
             ELSE [ex EXCEPT !.pc = "done", !.raised = TRUE]
    /\ UNCHANGED <<allowlist, denylist, current_process, proc, ws_open, running, requests>>

\* await ws.send(start)
SendStart ==
    /\ ex.pc = "start"
    /\ WsSend(Frame(ex.id, "start", NoText))
    /\ ex' = IF ws_open THEN [ex EXCEPT !.pc = "spawn"]
             ELSE [ex EXCEPT !.pc = "done", !.raised = TRUE]
    /\ UNCHANGED <<allowlist, denylist, current_process, proc, ws_open, running, requests>>

\* shlex.split and subprocess.Popen; either may raise.
Spawn(popen_ok) ==
    /\ ex.pc = "spawn"
    /\ IF ShlexFails(ex.command) \/ ~popen_ok
       THEN /\ ex' = [ex EXCEPT !.pc = "except"]
            /\ UNCHANGED <<current_process, proc>>
       ELSE /\ ex' = [ex EXCEPT !.pc = "read", !.spawned = TRUE]
            /\ current_process' = "Popen"
            /\ proc' = "alive"
    /\ UNCHANGED <<allowlist, denylist, ws_open, running, out, requests>>

\* _read_output: readline returned a line.
ReadLine ==
    /\ ex.pc = "read"
    /\ ex.lines < MaxLines
    /\ IF ~running
       THEN /\ ex' = [ex EXCEPT !.pc = "wait", !.lines = ex.lines + 1]
            /\ UNCHANGED out
       ELSE /\ WsSend(Frame(ex.id, "data", NoText))
            /\ ex' = [ex EXCEPT !.pc = IF ws_open THEN "read" ELSE "except",
                                !.lines = ex.lines + 1]
    /\ UNCHANGED <<allowlist, denylist, current_process, proc, ws_open, running, requests>>

\* _read_output: readline returned "" (the child closed its output).
ReadEOF ==
    /\ ex.pc = "read"
    /\ proc # "alive"
    /\ ex' = [ex EXCEPT !.pc = "wait"]
    /\ UNCHANGED <<allowlist, denylist, current_process, proc, ws_open, running, out, requests>>

\* A variant without the return after the timeout frame: execution goes on
\* to wait() and the exit frame.
Timeout_mut ==
    /\ ex.pc = "read"
    /\ proc' = IF proc = "alive" THEN "killed" ELSE proc
    /\ WsSend(Frame(ex.id, "timeout", NoText))
    /\ ex' = [ex EXCEPT !.pc = IF ws_open THEN "wait" ELSE "except"]
    /\ UNCHANGED <<allowlist, denylist, current_process, ws_open, running, requests>>

\* asyncio.TimeoutError: kill, wait, send timeout, return.
Timeout ==
    /\ ex.pc = "read"
    /\ proc' = IF proc = "alive" THEN "killed" ELSE proc
    /\ WsSend(Frame(ex.id, "timeout", NoText))
    /\ IF ws_open
       THEN /\ ex' = [ex EXCEPT !.pc = "done"]
            /\ current_process' = "None"
       ELSE /\ ex' = [ex EXCEPT !.pc = "except"]
            /\ UNCHANGED current_process
    /\ UNCHANGED <<allowlist, denylist, ws_open, running, requests>>

\* code = self._current_process.wait(); send exit
WaitAndExit ==
    /\ ex.pc = "wait"
    /\ proc' = IF proc = "alive" THEN "exited" ELSE proc
    /\ WsSend(Frame(ex.id, "exit", NoText))
    /\ IF ws_open
       THEN /\ ex' = [ex EXCEPT !.pc = "done"]
            /\ current_process' = "None"
       ELSE /\ ex' = [ex EXCEPT !.pc = "except"]
            /\ UNCHANGED current_process
    /\ UNCHANGED <<allowlist, denylist, ws_open, running, requests>>

\* except Exception as e: send error; finally: self._current_process = None
SendError ==
    /\ ex.pc = "except"
    /\ WsSend(Frame(ex.id, "error", NoText))
    /\ ex' = [ex EXCEPT !.pc = "done", !.raised = ~ws_open]
    /\ current_process' = "None"
    /\ UNCHANGED <<allowlist, denylist, proc, ws_open, running, requests>>

\* The child exits on its own.
ProcessExits ==
    /\ proc = "alive"
    /\ proc' = "exited"
    /\ UNCHANGED <<allowlist, denylist, ex, current_process, ws_open, running, out, requests>>

\* A child that was left running exits on its own.
OrphanExits ==
    /\ orphans > 0
    /\ orphans' = orphans - 1
    /\ UNCHANGED <<bufVars, clientVars, execVars, connVars, streamVars, cmdVars,
                   sessVars, histVars, fnVars, lockVars, wireVars>>

\* CommandExecutor.cancel(): terminate, wait up to 5 s, kill.
Cancel ==
    /\ current_process = "Popen"
    /\ proc = "alive"
    /\ proc' = "terminated"
    /\ UNCHANGED <<allowlist, denylist, ex, current_process, ws_open, running, out, requests>>

\* The peer closes the websocket.
WsClose ==
    /\ ws_open
    /\ ws_open' = FALSE
    /\ UNCHANGED <<allowlist, denylist, ex, current_process, proc, running, out, requests>>

\* The connector stops: running_flag() turns false.
Stop ==
    /\ running
    /\ ex.pc \notin {"idle", "done"}
    /\ running' = FALSE
    /\ UNCHANGED <<allowlist, denylist, ex, current_process, proc, ws_open, out, requests>>

NextExec ==
    \/ \E c \in Commands, id \in CmdIds : Execute(c, id) /\ UNCHANGED <<bufVars, clientVars, connVars, streamVars, cmdVars, sessVars, histVars, fnVars, lockVars, wireVars>>
    \/ SendAck /\ UNCHANGED <<bufVars, clientVars, connVars, streamVars, cmdVars, sessVars, histVars, osVars, fnVars, lockVars, wireVars>>
    \/ SendStart /\ UNCHANGED <<bufVars, clientVars, connVars, streamVars, cmdVars, sessVars, histVars, osVars, fnVars, lockVars, wireVars>>
    \/ \E ok \in BOOLEAN : Spawn(ok) /\ UNCHANGED <<bufVars, clientVars, connVars, streamVars, cmdVars, sessVars, histVars, osVars, fnVars, lockVars, wireVars>>
    \/ ReadLine /\ UNCHANGED <<bufVars, clientVars, connVars, streamVars, cmdVars, sessVars, histVars, osVars, fnVars, lockVars, wireVars>>
    \/ ReadEOF /\ UNCHANGED <<bufVars, clientVars, connVars, streamVars, cmdVars, sessVars, histVars, osVars, fnVars, lockVars, wireVars>>
    \/ Timeout /\ UNCHANGED <<bufVars, clientVars, connVars, streamVars, cmdVars, sessVars, histVars, osVars, fnVars, lockVars, wireVars>>
    \/ WaitAndExit /\ UNCHANGED <<bufVars, clientVars, connVars, streamVars, cmdVars, sessVars, histVars, osVars, fnVars, lockVars, wireVars>>
    \/ SendError /\ UNCHANGED <<bufVars, clientVars, connVars, streamVars, cmdVars, sessVars, histVars, osVars, fnVars, lockVars, wireVars>>
    \/ ProcessExits /\ UNCHANGED <<bufVars, clientVars, connVars, streamVars, cmdVars, sessVars, histVars, osVars, fnVars, lockVars, wireVars>>
    \/ Cancel /\ UNCHANGED <<bufVars, clientVars, connVars, streamVars, cmdVars, sessVars, histVars, osVars, fnVars, lockVars, wireVars>>
    \/ WsClose /\ UNCHANGED <<bufVars, clientVars, connVars, streamVars, cmdVars, sessVars, histVars, osVars, fnVars, lockVars, wireVars>>
    \/ Stop /\ UNCHANGED <<bufVars, clientVars, connVars, streamVars, cmdVars, sessVars, histVars, osVars, fnVars, lockVars, wireVars>>
    \/ OrphanExits

\* A buffer that is not used.
BufferIdle ==
    /\ backend = "memory"
    /\ max_size = 0
    /\ mem_buffer = <<>>
    /\ db = [rows |-> <<>>, seq |-> 0]
    /\ conn_open = TRUE
    /\ next_point = 0
    /\ last_add = NoAdd
    /\ at_close = NoClose
    /\ added_since_open = FALSE

InitExec == ExecInit /\ BufferIdle /\ ClientIdle /\ ConnectorIdle /\ StreamIdle /\ TypedIdle /\ SessionIdle /\ FnIdle /\ LockIdle /\ WireIdle

SpecExec == InitExec /\ [][NextExec]_vars

(***************************************************************************)
(* Stream manager: StreamManager (plexus/streaming.py).  A task is         *)
(* "running" until it returns or raises; Task.cancel() makes it            *)
(* "cancelling": the CancelledError is raised in it the next time the      *)
(* event loop runs it, and it sends nothing before.                        *)
(***************************************************************************)
\* store is the store value of the start command that created the task.  The
\* other fields are history, kept while the task runs: stopped, a stop_stream
\* for its id has completed since it started; late, it sent a frame after that;
\* persisted, whether its last batch with data went to persist_fn.  dev is the
\* camera of a camera_loop: "none" before camera.setup(), "held" after it,
\* "released" after camera.cleanup().
Task(kind, id, store) ==
    [kind |-> kind, id |-> id, state |-> "running", store |-> store,
     stopped |-> FALSE, late |-> FALSE, persisted |-> "none", dev |-> "none"]

\* A variant of camera_loop without the finally clause.
DeviceAfter_mut(t, state) == t.dev

\* camera_loop: finally: camera.cleanup().  It runs when the task ends after
\* it has entered the try block; a task cancelled before its first step never
\* runs any of its body.
DeviceAfter(t, state) ==
    IF state = "done" /\ t.dev = "held" THEN "released" ELSE t.dev

\* A task that was cancelled or has ended sends nothing more.
Ending(t, state) ==
    [kind |-> t.kind, id |-> t.id, state |-> state, store |-> FALSE,
     stopped |-> FALSE, late |-> FALSE, persisted |-> "none",
     dev |-> DeviceAfter(t, state)]

\* StreamManager.persist_fn is set.
persist_fn == TRUE

TaskIds == 1..Len(tasks)

\* task.cancel() for each task of the set
CancelTasks(ts, S) ==
    [i \in 1..Len(ts) |->
        IF i \in S /\ ts[i].state = "running"
        THEN Ending(ts[i], "cancelling") ELSE ts[i]]

\* task.cancel() followed by await task: the task has ended on return.
CancelAndAwait(ts, i) ==
    IF i = 0 THEN ts ELSE [ts EXCEPT ![i] = Ending(ts[i], "done")]

\* The tasks a registry holds.
Registered(registry) == {registry[k] : k \in DOMAIN registry} \ {0}

Cleared(registry) == [k \in DOMAIN registry |-> 0]

\* _cleanup_can_instance(channel): pop the adapter and disconnect it.
StreamManager__cleanup_can_instance(instances, channel) ==
    [instances EXCEPT ![channel] = 0]

StreamInit ==
    /\ sensor_hub \in BOOLEAN
    /\ camera_hub \in { [given |-> FALSE, cameras |-> {}],
                        [given |-> TRUE, cameras |-> CameraIds] }
    /\ can_adapters \in { {}, {[channel |-> c, is_up |-> TRUE] : c \in Channels},
                          {[channel |-> c, is_up |-> FALSE] : c \in Channels} }
    /\ tasks = <<>>
    /\ active_streams = [i \in SensorIds |-> 0]
    /\ active_camera_streams = [i \in CameraIds |-> 0]
    /\ active_can_streams = [i \in Channels |-> 0]
    /\ can_instances = [i \in Channels |-> 0]
    /\ recording = FALSE
    /\ arrived = <<>>
    /\ last_status = ""

\* A variant that cancels the task already registered for the id.
StartStreamTasks_mut(stream_id, store) ==
    Append(CancelTasks(tasks, {active_streams[stream_id]}), Task("sensor", stream_id, store))

\* start_stream: the task list after create_task(stream_loop()).
StartStreamTasks(stream_id, store) == Append(tasks, Task("sensor", stream_id, store))

\* start_stream(data, ws)
start_stream(stream_id, store) ==
    /\ recording' = store
    /\ IF ~sensor_hub
       THEN UNCHANGED <<tasks, active_streams>>
       ELSE /\ Len(tasks) < MaxTasks
            /\ tasks' = StartStreamTasks(stream_id, store)
            /\ active_streams' = [active_streams EXCEPT ![stream_id] = Len(tasks) + 1]
    /\ UNCHANGED <<sensor_hub, camera_hub, can_adapters, active_camera_streams,
                   active_can_streams, can_instances>>

\* History: stop_stream(stream_id) has completed for these sensor streams.
MarkStopped(ts, stream_id) ==
    [i \in 1..Len(ts) |->
        IF /\ ts[i].kind = "sensor" /\ ts[i].state = "running"
           /\ (stream_id = "*" \/ ts[i].id = stream_id)
        THEN [ts[i] EXCEPT !.stopped = TRUE] ELSE ts[i]]

\* stop_stream(data); the id "*" stops every sensor stream.
stop_stream(stream_id) ==
    /\ IF stream_id = "*"
       THEN /\ tasks' = MarkStopped(CancelTasks(tasks, Registered(active_streams)),
                                    stream_id)
            /\ active_streams' = Cleared(active_streams)
       ELSE IF stream_id \in SensorIds /\ active_streams[stream_id] # 0
       THEN /\ tasks' = MarkStopped(CancelTasks(tasks, {active_streams[stream_id]}),
                                    stream_id)
            /\ active_streams' = [active_streams EXCEPT ![stream_id] = 0]
       ELSE /\ tasks' = MarkStopped(tasks, stream_id)
            /\ UNCHANGED active_streams
    /\ recording' = FALSE
    /\ UNCHANGED <<sensor_hub, camera_hub, can_adapters, active_camera_streams,
                   active_can_streams, can_instances>>

\* start_camera(data, ws)
start_camera(camera_id) ==
    /\ IF ~camera_hub.given \/ camera_id \notin camera_hub.cameras
       THEN UNCHANGED <<tasks, active_camera_streams>>
       ELSE /\ Len(tasks) < MaxTasks
            /\ tasks' = Append(CancelAndAwait(tasks, active_camera_streams[camera_id]),
                               Task("camera", camera_id, FALSE))
            /\ active_camera_streams' =
                  [active_camera_streams EXCEPT ![camera_id] = Len(tasks) + 1]
    /\ UNCHANGED <<sensor_hub, camera_hub, can_adapters, active_streams,
                   active_can_streams, can_instances, recording>>

\* stop_camera(data)
stop_camera(camera_id) ==
    /\ IF camera_id = "*"
       THEN /\ tasks' = CancelTasks(tasks, Registered(active_camera_streams))
            /\ active_camera_streams' = Cleared(active_camera_streams)
       ELSE IF camera_id \in CameraIds /\ active_camera_streams[camera_id] # 0
       THEN /\ tasks' = CancelTasks(tasks, {active_camera_streams[camera_id]})
            /\ active_camera_streams' = [active_camera_streams EXCEPT ![camera_id] = 0]
       ELSE UNCHANGED <<tasks, active_camera_streams>>
    /\ UNCHANGED <<sensor_hub, camera_hub, can_adapters, active_streams,
                   active_can_streams, can_instances, recording>>

\* The channel is among the detected adapters.
Detected(channel) == \E c \in can_adapters : c.channel = channel

\* A variant that does not look at is_up.
CanRefused_mut(channel) == channel = "" \/ ~Detected(channel)

\* start_can_stream returns before it touches anything: no channel given, the
\* channel was not detected, or its interface is down.
CanRefused(channel) ==
    \/ channel = ""
    \/ ~Detected(channel)
    \/ \E c \in can_adapters : c.channel = channel /\ ~c.is_up

\* start_can_stream(data, ws); connect_ok is whether CANAdapter.connect returns.
start_can_stream(channel, store, connect_ok) ==
    /\ IF CanRefused(channel)
       THEN UNCHANGED <<tasks, active_can_streams, can_instances, recording>>
       ELSE LET old == active_can_streams[channel]
                stopped == CancelAndAwait(tasks, old)
            IN  /\ recording' = (recording \/ store)
                /\ IF ~connect_ok
                   THEN /\ tasks' = stopped
                        /\ active_can_streams' = [active_can_streams EXCEPT ![channel] = 0]
                        /\ can_instances' =
                              IF old # 0
                              THEN StreamManager__cleanup_can_instance(can_instances, channel)
                              ELSE can_instances
                   ELSE /\ Len(tasks) < MaxTasks
                        /\ tasks' = Append(stopped, Task("can", channel, store))
                        /\ active_can_streams' =
                              [active_can_streams EXCEPT ![channel] = Len(tasks) + 1]
                        /\ can_instances' = [can_instances EXCEPT ![channel] = Len(tasks) + 1]
    /\ UNCHANGED <<sensor_hub, camera_hub, can_adapters, active_streams,
                   active_camera_streams>>

\* stop_can_stream(data)
stop_can_stream(channel) ==
    /\ IF channel = "*"
       THEN /\ tasks' = CancelTasks(tasks, Registered(active_can_streams))
            /\ active_can_streams' = Cleared(active_can_streams)
            /\ can_instances' = Cleared(can_instances)
       ELSE IF channel \in Channels /\ active_can_streams[channel] # 0
       THEN /\ tasks' = CancelTasks(tasks, {active_can_streams[channel]})
            /\ active_can_streams' = [active_can_streams EXCEPT ![channel] = 0]
            /\ can_instances' = StreamManager__cleanup_can_instance(can_instances, channel)
       ELSE UNCHANGED <<tasks, active_can_streams, can_instances>>
    /\ UNCHANGED <<sensor_hub, camera_hub, can_adapters, active_streams,
                   active_camera_streams, recording>>

\* cancel_all()
cancel_all ==
    /\ recording' = FALSE
    /\ tasks' = CancelTasks(tasks, Registered(active_streams)
                                   \cup Registered(active_camera_streams)
                                   \cup Registered(active_can_streams))
    /\ active_streams' = Cleared(active_streams)
    /\ active_camera_streams' = Cleared(active_camera_streams)
    /\ active_can_streams' = Cleared(active_can_streams)
    /\ can_instances' = Cleared(can_instances)
    /\ UNCHANGED <<sensor_hub, camera_hub, can_adapters>>

\* The registry a task of the kind looks its id up in.
RegistryOf(kind) ==
    IF kind = "sensor" THEN active_streams
    ELSE IF kind = "camera" THEN active_camera_streams
    ELSE active_can_streams

\* What a task leaves behind when it ends: can_loop's finally pops the
\* adapter of its channel.
InstancesAfterEnd(t) ==
    IF t.kind = "can" THEN StreamManager__cleanup_can_instance(can_instances, t.id)
    ELSE can_instances

\* if self._recording and points and self.persist_fn: create_task(persist_fn(points));
\* camera_loop persists nothing.
Persisted(t, has_data) ==
    IF t.kind = "camera" \/ ~has_data THEN t.persisted
    ELSE IF recording /\ persist_fn THEN "yes" ELSE "no"

\* One iteration of stream_loop, camera_loop or can_loop: the loop condition
\* looks the id up in the registry, then the frame is sent; has_data is
\* whether the read produced something to send.
TaskIteration(i, has_data) ==
    /\ i \in TaskIds
    /\ tasks[i].state = "running"
    /\ tasks[i].kind = "camera" => tasks[i].dev = "held"
    /\ LET t == tasks[i]
       IN  IF RegistryOf(t.kind)[t.id] = 0
           THEN /\ tasks' = [tasks EXCEPT ![i] = Ending(t, "done")]
                /\ can_instances' = InstancesAfterEnd(t)
           ELSE IF t.kind # "sensor" /\ ~has_data
           THEN UNCHANGED <<tasks, can_instances>>
           ELSE IF ws_open
           THEN /\ tasks' = [tasks EXCEPT ![i].late = t.stopped,
                                          ![i].persisted = Persisted(t, has_data)]
                /\ UNCHANGED can_instances
           ELSE /\ tasks' = [tasks EXCEPT ![i] = Ending(t, "done")]
                /\ can_instances' = InstancesAfterEnd(t)
    /\ UNCHANGED <<sensor_hub, camera_hub, can_adapters, active_streams,
                   active_camera_streams, active_can_streams, recording>>

\* The cancelled tasks of the same camera.  Their cancellation was scheduled
\* before task i was created, and the event loop runs callbacks in the order
\* they were scheduled, so they end before task i runs for the first time.
CancelledBefore(i) ==
    {j \in TaskIds \ {i} : /\ tasks[j].kind = "camera" /\ tasks[j].id = tasks[i].id
                            /\ tasks[j].state = "cancelling"}

\* The first step of camera_loop: camera.setup(); ok is whether it returns.
\* When it raises, the finally clause calls cleanup() and the task ends with
\* the exception; its id stays in the registry.
CameraSetup(i, ok) ==
    /\ i \in TaskIds
    /\ tasks[i].kind = "camera" /\ tasks[i].state = "running" /\ tasks[i].dev = "none"
    /\ CancelledBefore(i) = {}
    /\ tasks' = [tasks EXCEPT ![i] = IF ok THEN [@ EXCEPT !.dev = "held"]
                                     ELSE Ending([@ EXCEPT !.dev = "held"], "done")]
    /\ UNCHANGED <<sensor_hub, camera_hub, can_adapters, active_streams,
                   active_camera_streams, active_can_streams, can_instances, recording>>

\* camera.capture() raises: only CancelledError is caught, the finally clause
\* calls cleanup() and the task ends; its id stays in the registry.
CameraCaptureRaises(i) ==
    /\ i \in TaskIds
    /\ tasks[i].kind = "camera" /\ tasks[i].state = "running" /\ tasks[i].dev = "held"
    /\ active_camera_streams[tasks[i].id] # 0
    /\ tasks' = [tasks EXCEPT ![i] = Ending(@, "done")]
    /\ UNCHANGED <<sensor_hub, camera_hub, can_adapters, active_streams,
                   active_camera_streams, active_can_streams, can_instances, recording>>

\* The event loop raises CancelledError in a cancelled task.
TaskCancelled(i) ==
    /\ i \in TaskIds
    /\ tasks[i].state = "cancelling"
    /\ tasks' = [tasks EXCEPT ![i] = Ending(tasks[i], "done")]
    /\ can_instances' = InstancesAfterEnd(tasks[i])
    /\ UNCHANGED <<sensor_hub, camera_hub, can_adapters, active_streams,
                   active_camera_streams, active_can_streams, recording>>

NextStream ==
    \/ \E id \in SensorIds, store \in BOOLEAN :
          start_stream(id, store) /\ UNCHANGED <<bufVars, clientVars, execVars, connVars, cmdVars, sessVars, histVars, osVars, fnVars, lockVars, wireVars>>
    \/ \E id \in SensorIds \cup {"*", "s9"} :
          stop_stream(id) /\ UNCHANGED <<bufVars, clientVars, execVars, connVars, cmdVars, sessVars, histVars, osVars, fnVars, lockVars, wireVars>>
    \/ \E id \in CameraIds \cup {"cam9"} :
          start_camera(id) /\ UNCHANGED <<bufVars, clientVars, execVars, connVars, cmdVars, sessVars, histVars, osVars, fnVars, lockVars, wireVars>>
    \/ \E id \in CameraIds \cup {"*", "cam9"} :
          stop_camera(id) /\ UNCHANGED <<bufVars, clientVars, execVars, connVars, cmdVars, sessVars, histVars, osVars, fnVars, lockVars, wireVars>>
    \/ \E ch \in Channels \cup {"", "can9"}, store \in BOOLEAN, ok \in BOOLEAN :
          start_can_stream(ch, store, ok) /\ UNCHANGED <<bufVars, clientVars, execVars, connVars, cmdVars, sessVars, histVars, osVars, fnVars, lockVars, wireVars>>
    \/ \E ch \in Channels \cup {"*", "can9"} :
          stop_can_stream(ch) /\ UNCHANGED <<bufVars, clientVars, execVars, connVars, cmdVars, sessVars, histVars, osVars, fnVars, lockVars, wireVars>>
    \/ cancel_all /\ UNCHANGED <<bufVars, clientVars, execVars, connVars, cmdVars, sessVars, histVars, osVars, fnVars, lockVars, wireVars>>
    \/ \E i \in 1..MaxTasks, d \in BOOLEAN :
          TaskIteration(i, d) /\ UNCHANGED <<bufVars, clientVars, execVars, connVars, cmdVars, sessVars, histVars, osVars, fnVars, lockVars, wireVars>>
    \/ \E i \in 1..MaxTasks :
          TaskCancelled(i) /\ UNCHANGED <<bufVars, clientVars, execVars, connVars, cmdVars, sessVars, histVars, osVars, fnVars, lockVars, wireVars>>
    \/ \E i \in 1..MaxTasks, ok \in BOOLEAN :
          CameraSetup(i, ok) /\ UNCHANGED <<bufVars, clientVars, execVars, connVars, cmdVars, sessVars, histVars, osVars, fnVars, lockVars, wireVars>>
    \/ \E i \in 1..MaxTasks :
          CameraCaptureRaises(i) /\ UNCHANGED <<bufVars, clientVars, execVars, connVars, cmdVars, sessVars, histVars, osVars, fnVars, lockVars, wireVars>>
    \/ WsClose /\ UNCHANGED <<bufVars, clientVars, connVars, streamVars, cmdVars, sessVars, histVars, osVars, fnVars, lockVars, wireVars>>

InitStream == BufferIdle /\ ClientIdle /\ ExecIdle /\ ConnectorIdle /\ StreamInit /\ TypedIdle /\ SessionIdle /\ FnIdle /\ LockIdle /\ WireIdle

SpecStream == InitStream /\ [][NextStream]_vars

(***************************************************************************)
(* Camera streams alone, with the event loop's guarantee that a task       *)
(* whose cancellation was requested is run again: CancelledError is        *)
(* raised in it and it ends.                                               *)
(***************************************************************************)
Others == <<bufVars, clientVars, execVars, connVars, cmdVars, sessVars, histVars, osVars, fnVars, lockVars, wireVars>>

NextCamera ==
    \/ \E id \in CameraIds \cup {"cam9"} : start_camera(id) /\ UNCHANGED Others
    \/ \E id \in CameraIds \cup {"*", "cam9"} : stop_camera(id) /\ UNCHANGED Others
    \/ cancel_all /\ UNCHANGED Others
    \/ \E i \in 1..MaxTasks, ok \in BOOLEAN : CameraSetup(i, ok) /\ UNCHANGED Others
    \/ \E i \in 1..MaxTasks : CameraCaptureRaises(i) /\ UNCHANGED Others
    \/ \E i \in 1..MaxTasks, d \in BOOLEAN : TaskIteration(i, d) /\ UNCHANGED Others
    \/ \E i \in 1..MaxTasks : TaskCancelled(i) /\ UNCHANGED Others
    \/ WsClose /\ UNCHANGED <<bufVars, clientVars, connVars, streamVars, cmdVars, sessVars, histVars, osVars, fnVars, lockVars, wireVars>>

SpecCamera ==
    /\ InitStream
    /\ [][NextCamera]_vars
    /\ \A i \in 1..MaxTasks : WF_vars(TaskCancelled(i) /\ UNCHANGED Others)

(***************************************************************************)
(* CAN streams alone, with the messages the handlers and can_loop give to  *)
(* the on_status callback.                                                 *)
(***************************************************************************)
\* The message start_can_stream gives to on_status.
start_can_status(channel, connect_ok) ==
    IF channel = "" THEN "No CAN channel specified"
    ELSE IF ~Detected(channel) THEN "CAN channel not found"
    ELSE IF CanRefused(channel) THEN "CAN interface is down"
    ELSE IF ~connect_ok THEN "CAN connect failed"
    ELSE "CAN streaming"

\* The message stop_can_stream gives to on_status, if any.
stop_can_status(channel) ==
    IF channel = "*" THEN "Stopped all CAN streams"
    ELSE IF channel \in Channels /\ active_can_streams[channel] # 0 THEN "Stopped CAN stream"
    ELSE last_status

\* can_loop: except Exception as e: self.on_status(f"CAN stream error: {e}"),
\* when ws.send raises.
can_loop_status(i, has_data) ==
    IF /\ tasks[i].kind = "can" /\ active_can_streams[tasks[i].id] # 0
       /\ has_data /\ ~ws_open
    THEN "CAN stream error" ELSE last_status

Rest == <<bufVars, clientVars, execVars, connVars, cmdVars, sessVars, arrived, osVars, fnVars, lockVars, wireVars>>

NextCan ==
    \/ \E ch \in Channels \cup {"", "can9"}, store \in BOOLEAN, ok \in BOOLEAN :
          /\ start_can_stream(ch, store, ok) /\ last_status' = start_can_status(ch, ok)
          /\ UNCHANGED Rest
    \/ \E ch \in Channels \cup {"*", "can9"} :
          /\ stop_can_stream(ch) /\ last_status' = stop_can_status(ch)
          /\ UNCHANGED Rest
    \/ cancel_all /\ UNCHANGED <<Rest, last_status>>
    \/ \E i \in 1..MaxTasks, d \in BOOLEAN :
          /\ TaskIteration(i, d) /\ last_status' = can_loop_status(i, d)
          /\ UNCHANGED Rest
    \/ \E i \in 1..MaxTasks : TaskCancelled(i) /\ UNCHANGED <<Rest, last_status>>
    \/ WsClose /\ UNCHANGED <<bufVars, clientVars, connVars, streamVars, cmdVars, sessVars, histVars, osVars, fnVars, lockVars, wireVars>>

SpecCan == InitStream /\ [][NextCan]_vars

(***************************************************************************)
(* The order of start_stream and stop_stream messages.  The connector      *)
(* handles one message at a time (async for message in ws: await           *)
(* self._handle_message(message)), so the two handlers never interleave;   *)
(* the stream tasks run between them.  arrived keeps the last two.         *)
(***************************************************************************)
Arrival(type, id) == [type |-> type, id |-> id]

Arrive(type, id) ==
    arrived' = IF arrived = <<>> THEN <<Arrival(type, id)>>
               ELSE <<arrived[Len(arrived)], Arrival(type, id)>>

NextStreamOrder ==
    \/ \E id \in SensorIds, store \in BOOLEAN :
          /\ start_stream(id, store) /\ Arrive("start_stream", id) /\ UNCHANGED last_status
          /\ UNCHANGED <<bufVars, clientVars, execVars, connVars, cmdVars, sessVars, osVars, fnVars, lockVars, wireVars>>
    \/ \E id \in SensorIds :
          /\ stop_stream(id) /\ Arrive("stop_stream", id) /\ UNCHANGED last_status
          /\ UNCHANGED <<bufVars, clientVars, execVars, connVars, cmdVars, sessVars, osVars, fnVars, lockVars, wireVars>>
    \/ \E i \in 1..MaxTasks, d \in BOOLEAN :
          TaskIteration(i, d) /\ UNCHANGED <<bufVars, clientVars, execVars, connVars, cmdVars, sessVars, histVars, osVars, fnVars, lockVars, wireVars>>
    \/ \E i \in 1..MaxTasks :
          TaskCancelled(i) /\ UNCHANGED <<bufVars, clientVars, execVars, connVars, cmdVars, sessVars, histVars, osVars, fnVars, lockVars, wireVars>>

SpecStreamOrder == InitStream /\ [][NextStreamOrder]_vars

(***************************************************************************)
(* Connector: PlexusConnector (plexus/connector.py).  It runs the shell    *)
(* command of an execute frame itself; _running and _current_process are   *)
(* the variables running and current_process, ws_open is the state of the  *)
(* socket connect() holds, ws is the attribute _ws, and ex is the          *)
(* activation of _execute_command.  The message loop awaits each handler,  *)
(* so the next frame is read when the handler has returned.  The connector *)
(* is built without sensor hub and camera hub: its stream handlers set the *)
(* recording flag and start no task, and nothing opens _http_session.      *)
(***************************************************************************)
Message(type, id, command, store) ==
    [type |-> type, id |-> id, command |-> command, store |-> store]

\* The frames the server sends: "malformed" is a text json.loads rejects and
\* "not_object" a JSON value that is not an object.
Messages ==
    { Message(t, "", <<>>, FALSE) :
         t \in {"authenticated", "error", "cancel", "ping", "unknown",
                "malformed", "not_object"} }
    \cup { Message("start_stream", "s1", <<>>, store) : store \in BOOLEAN }
    \cup { Message("stop_stream", "s1", <<>>, FALSE) }
    \cup { Message("execute", id, c, FALSE) :
              id \in CmdIds, c \in { <<>>, <<"l", "s">>, <<"c", "a", "t", " ", "'", "x">> } }

Unchecked == [allowed |-> TRUE, reason |-> Reason("", <<>>)]

\* asyncio.sleep(5) before the next connection attempt
ReconnectSleep == 5

\* connect() inside `async for message in ws` of a connection it has just
\* opened.  pc is the position of connect(): "recv" in the receive loop,
\* "sleep" in asyncio.sleep, "head" at `while self._running`, "returned".
\* The other fields are history.  Of the current connection: auth_seen, an
\* authenticated frame was received on it; last_frame, the type of the last
\* frame handled on it; dispatched, that frame was passed to a handler; long,
\* the connection has been authenticated for more than 30 s.  Of the last
\* connection or attempt that ended: exit, how it ended; k, how many have
\* ended in a row that failed or were authenticated for at most 30 s, the
\* last one included (1 after a longer one); after_long, it had been
\* authenticated for more than 30 s; waited, connect() went on to another
\* attempt; secs, the seconds it slept before that attempt.  queued: a cancel
\* frame has arrived on the socket while _execute_command was running and
\* waits to be read; cancel, what the last such frame found when it was
\* handled: the process running ("hit") or not ("missed").
Connected(c) ==
    [c EXCEPT !.pc = "recv", !.auth_seen = FALSE, !.last_frame = "none",
              !.dispatched = FALSE, !.long = FALSE, !.queued = FALSE]

\* The `async with` block of connect() is left: by ConnectionClosed
\* ("closed"), by another exception of the receive loop ("frame") or of
\* websockets.connect ("failed"), both handled by `except Exception`, or by the
\* end of the iteration after a normal close ("clean"), which goes back to the
\* loop head without sleeping.
Left(c, why) ==
    [c EXCEPT !.pc = IF running /\ why # "clean" THEN "sleep" ELSE "head",
              !.exit = why,
              !.k = IF c.long THEN 1 ELSE c.k + 1,
              !.after_long = c.long,
              !.waited = running,
              !.secs = IF running /\ why # "clean" THEN ReconnectSleep ELSE 0]

\* History of _handle_message(message)
Handled(c, msg, dispatched) ==
    [c EXCEPT !.auth_seen = c.auth_seen \/ msg.type = "authenticated",
              !.last_frame = msg.type,
              !.dispatched = dispatched]

\* The handlers dict of _handle_message; the camera and configure handlers
\* return at once without their hub.
Handlers == {"start_stream", "stop_stream", "execute", "cancel", "ping"}

\* A variant that looks the handler up without the authentication check.
Dispatched_mut(auth, msg) == msg.type \in Handlers

\* _handle_message reaches handler(data): the frame is neither authenticated
\* nor error, the connection is authenticated and the type has a handler.
Dispatched(auth, msg) == auth /\ msg.type \in Handlers

\* self._ws.send(frame): AttributeError when _ws is None
Connector_Send(frame) == IF ws = "None" THEN UNCHANGED out ELSE WsSend(frame)

SendOk == ws = "ws" /\ ws_open

\* The exception of a failed send
SendFailure == IF ws = "None" THEN "frame" ELSE "closed"

\* The server sends a cancel frame while the process of a command runs.  The
\* receive loop is inside `await self._handle_message(message)`: the frame
\* stays in the socket until the handler has returned.
CancelArrives ==
    /\ conn.pc = "recv"
    /\ ws_open
    /\ authenticated
    /\ ex.pc = "read" /\ current_process = "Popen" /\ proc = "alive"
    /\ ~conn.queued
    /\ conn' = [conn EXCEPT !.queued = TRUE]
    /\ UNCHANGED <<execVars, authenticated, ws, streamVars>>

\* History: what the cancel frame that waited in the socket finds.
CancelOutcome(c, dispatched) ==
    IF ~c.queued THEN c.cancel
    ELSE IF dispatched /\ current_process = "Popen" /\ proc = "alive" THEN "hit"
    ELSE "missed"

\* _handle_message, and _execute_command up to its first send.
\* _cancel_command finds _current_process unset: the handler that sets it has
\* returned before the next frame is read.  Only json.JSONDecodeError is
\* caught: any other exception leaves the receive loop of connect().
HandleMessage(msg) ==
    /\ conn.pc = "recv"
    /\ ex.pc \in {"idle", "done"}
    /\ ws_open
    /\ requests < MaxMessages
    /\ requests' = requests + 1
    /\ authenticated' = (authenticated \/ msg.type = "authenticated")
    /\ conn.queued => msg.type = "cancel"
    /\ LET d == Dispatched(authenticated, msg)
           h == [Handled(conn, msg, d) EXCEPT !.queued = FALSE,
                                              !.cancel = CancelOutcome(conn, d)]
       IN  IF msg.type = "not_object" \/ (d /\ msg.type = "ping" /\ ws = "None")
           THEN /\ conn' = Left(h, "frame")
                /\ ws_open' = FALSE
                /\ UNCHANGED <<ex, out, proc, streamVars>>
           ELSE /\ conn' = h
                /\ UNCHANGED ws_open
                /\ IF d /\ msg.type = "execute"
                   THEN /\ ex' = Activation(IF msg.command = <<>> THEN "done" ELSE "start",
                                            msg.command, msg.id, Unchecked)
                        /\ out' = <<>>
                        /\ proc' = "none"
                        /\ UNCHANGED streamVars
                   ELSE IF d /\ msg.type = "ping"
                   THEN /\ WsSend(Frame("", "pong", NoText))
                        /\ UNCHANGED <<ex, proc, streamVars>>
                   ELSE IF d /\ msg.type = "cancel"
                   THEN /\ proc' = IF current_process = "Popen" /\ proc = "alive"
                                   THEN "terminated" ELSE proc
                        /\ UNCHANGED <<ex, out, streamVars>>
                   ELSE IF d /\ msg.type = "start_stream"
                   THEN /\ start_stream(msg.id, msg.store)
                        /\ UNCHANGED <<ex, out, proc>>
                   ELSE IF d /\ msg.type = "stop_stream"
                   THEN /\ stop_stream(msg.id)
                        /\ UNCHANGED <<ex, out, proc>>
                   ELSE UNCHANGED <<ex, out, proc, streamVars>>
    /\ orphans' = IF Dispatched(authenticated, msg) /\ msg.type = "execute"
                  THEN LeftRunning(proc) ELSE orphans
    /\ UNCHANGED <<allowlist, denylist, current_process, running, ws>>

\* await self._ws.send(start); a failed send raises out of the handler and
\* out of the receive loop.
Connector_SendStart ==
    /\ ex.pc = "start"
    /\ Connector_Send(Frame(ex.id, "start", NoText))
    /\ IF SendOk
       THEN /\ ex' = [ex EXCEPT !.pc = "spawn"]
            /\ UNCHANGED <<conn, ws_open>>
       ELSE /\ ex' = [ex EXCEPT !.pc = "done", !.raised = TRUE]
            /\ conn' = Left(conn, SendFailure)
            /\ ws_open' = FALSE
    /\ UNCHANGED <<allowlist, denylist, current_process, proc, running,
                   requests, authenticated, ws>>

\* shlex.split and subprocess.Popen
Connector_Spawn(popen_ok) ==
    /\ ex.pc = "spawn"
    /\ IF ShlexFails(ex.command) \/ ~popen_ok
       THEN /\ ex' = [ex EXCEPT !.pc = "except"]
            /\ UNCHANGED <<current_process, proc>>
       ELSE /\ ex' = [ex EXCEPT !.pc = "read", !.spawned = TRUE]
            /\ current_process' = "Popen"
            /\ proc' = "alive"
    /\ UNCHANGED <<allowlist, denylist, ws_open, running, out, requests, connVars>>

\* for line in iter(stdout.readline, ""): one line
Connector_ReadLine ==
    /\ ex.pc = "read"
    /\ ex.lines < MaxLines
    /\ IF ~running
       THEN /\ ex' = [ex EXCEPT !.pc = "wait", !.lines = ex.lines + 1]
            /\ UNCHANGED out
       ELSE /\ Connector_Send(Frame(ex.id, "data", NoText))
            /\ ex' = [ex EXCEPT !.pc = IF SendOk THEN "read" ELSE "except",
                                !.lines = ex.lines + 1]
    /\ UNCHANGED <<allowlist, denylist, current_process, proc, ws_open, running,
                   requests, connVars>>

\* readline returned "": the loop ends.
Connector_ReadEOF ==
    /\ ex.pc = "read"
    /\ proc # "alive"
    /\ ex' = [ex EXCEPT !.pc = "wait"]
    /\ UNCHANGED <<allowlist, denylist, current_process, proc, ws_open, running, out,
                   requests, connVars>>

\* code = self._current_process.wait(); send exit
Connector_WaitAndExit ==
    /\ ex.pc = "wait"
    /\ proc' = IF proc = "alive" THEN "exited" ELSE proc
    /\ Connector_Send(Frame(ex.id, "exit", NoText))
    /\ IF SendOk
       THEN /\ ex' = [ex EXCEPT !.pc = "done"]
            /\ current_process' = "None"
       ELSE /\ ex' = [ex EXCEPT !.pc = "except"]
            /\ UNCHANGED current_process
    /\ UNCHANGED <<allowlist, denylist, ws_open, running, requests, connVars>>

\* except Exception as e: send error; finally: self._current_process = None.
\* A failed send raises out of the handler and out of the receive loop.
Connector_SendError ==
    /\ ex.pc = "except"
    /\ Connector_Send(Frame(ex.id, "error", NoText))
    /\ ex' = [ex EXCEPT !.pc = "done", !.raised = ~SendOk]
    /\ current_process' = "None"
    /\ IF SendOk
       THEN UNCHANGED <<conn, ws_open>>
       ELSE /\ conn' = Left(conn, SendFailure)
            /\ ws_open' = FALSE
    /\ UNCHANGED <<allowlist, denylist, proc, running, requests, authenticated, ws>>

\* The connection has been authenticated for more than 30 s.
Connector_Active30s ==
    /\ conn.pc = "recv"
    /\ ws_open
    /\ authenticated
    /\ ~conn.long
    /\ conn' = [conn EXCEPT !.long = TRUE]
    /\ UNCHANGED <<execVars, authenticated, ws, sessVars, histVars, osVars, fnVars, lockVars, wireVars>>

\* The receive loop finds the socket closed: the iteration raises
\* ConnectionClosed, or ends when the close was a normal one.
ConnectionLost(clean) ==
    /\ conn.pc = "recv"
    /\ ex.pc \in {"idle", "done"}
    /\ ~ws_open
    /\ conn' = Left(conn, IF clean THEN "clean" ELSE "closed")
    /\ UNCHANGED <<execVars, authenticated, ws, sessVars, histVars, osVars, fnVars, lockVars, wireVars>>

\* disconnect(), called from outside the message loop.  It drops the
\* reference _ws; the socket stays with connect().
Disconnect ==
    /\ running
    /\ running' = FALSE
    /\ recording' = FALSE
    /\ proc' = IF current_process = "Popen" /\ proc = "alive" THEN "terminated" ELSE proc
    /\ tasks' = CancelTasks(tasks, Registered(active_streams)
                                   \cup Registered(active_camera_streams))
    /\ active_streams' = Cleared(active_streams)
    /\ active_camera_streams' = Cleared(active_camera_streams)
    /\ ws' = "None"
    /\ UNCHANGED <<allowlist, denylist, ex, current_process, ws_open, out, requests,
                   authenticated, conn, sensor_hub, camera_hub, can_adapters,
                   active_can_streams, can_instances>>

\* connect(): the loop head after the sleep.  It returns when _running is
\* false; otherwise websockets.connect opens a socket (connect_ok) or raises.
Reconnect(connect_ok) ==
    /\ conn.pc \in {"sleep", "head"}
    /\ IF ~running
       THEN /\ conn' = [conn EXCEPT !.pc = "returned"]
            /\ UNCHANGED <<ws_open, authenticated, ws>>
       ELSE /\ conn.attempts < MaxConnects
            /\ IF connect_ok
               THEN /\ conn' = Connected([conn EXCEPT !.attempts = conn.attempts + 1])
                    /\ ws_open' = TRUE
                    /\ ws' = "ws"
                    /\ authenticated' = FALSE
               ELSE /\ conn' = Left([conn EXCEPT !.attempts = conn.attempts + 1,
                                                 !.long = FALSE], "failed")
                    /\ UNCHANGED <<ws_open, authenticated, ws>>
    /\ UNCHANGED <<allowlist, denylist, ex, current_process, proc, running, out, requests>>

NextConnector ==
    \/ \E msg \in Messages : HandleMessage(msg) /\ UNCHANGED <<bufVars, clientVars, cmdVars, sessVars, histVars, fnVars, lockVars, wireVars>>
    \/ Connector_SendStart /\ UNCHANGED <<bufVars, clientVars, streamVars, cmdVars, sessVars, histVars, osVars, fnVars, lockVars, wireVars>>
    \/ \E ok \in BOOLEAN : Connector_Spawn(ok) /\ UNCHANGED <<bufVars, clientVars, streamVars, cmdVars, sessVars, histVars, osVars, fnVars, lockVars, wireVars>>
    \/ Connector_ReadLine /\ UNCHANGED <<bufVars, clientVars, streamVars, cmdVars, sessVars, histVars, osVars, fnVars, lockVars, wireVars>>
    \/ Connector_ReadEOF /\ UNCHANGED <<bufVars, clientVars, streamVars, cmdVars, sessVars, histVars, osVars, fnVars, lockVars, wireVars>>
    \/ Connector_WaitAndExit /\ UNCHANGED <<bufVars, clientVars, streamVars, cmdVars, sessVars, histVars, osVars, fnVars, lockVars, wireVars>>
    \/ Connector_SendError /\ UNCHANGED <<bufVars, clientVars, streamVars, cmdVars, sessVars, histVars, osVars, fnVars, lockVars, wireVars>>
    \/ Connector_Active30s /\ UNCHANGED <<bufVars, clientVars, streamVars, cmdVars, sessVars, histVars, osVars, fnVars, lockVars, wireVars>>
    \/ CancelArrives /\ UNCHANGED <<bufVars, clientVars, cmdVars, sessVars, histVars, osVars, fnVars, lockVars, wireVars>>
    \/ \E clean \in BOOLEAN : ConnectionLost(clean) /\ UNCHANGED <<bufVars, clientVars, streamVars, cmdVars, sessVars, histVars, osVars, fnVars, lockVars, wireVars>>
    \/ ProcessExits /\ UNCHANGED <<bufVars, clientVars, connVars, streamVars, cmdVars, sessVars, histVars, osVars, fnVars, lockVars, wireVars>>
    \/ WsClose /\ UNCHANGED <<bufVars, clientVars, connVars, streamVars, cmdVars, sessVars, histVars, osVars, fnVars, lockVars, wireVars>>
    \/ Disconnect /\ UNCHANGED <<bufVars, clientVars, cmdVars, sessVars, histVars, osVars, fnVars, lockVars, wireVars>>
    \/ \E ok \in BOOLEAN : Reconnect(ok) /\ UNCHANGED <<bufVars, clientVars, streamVars, cmdVars, sessVars, histVars, osVars, fnVars, lockVars, wireVars>>
    \/ OrphanExits

InitConnector == BufferIdle /\ ClientIdle /\ ExecIdle /\ ConnectorIdle /\ StreamIdle /\ TypedIdle /\ SessionIdle /\ FnIdle /\ LockIdle /\ WireIdle

SpecConnector == InitConnector /\ [][NextConnector]_vars

(***************************************************************************)
(* Typed commands: ParamDescriptor and CommandRegistry                     *)
(* (plexus/typed_commands.py).  A JSON value is a record of its Python     *)
(* type, its number and its string; numbers are integers.                  *)
(***************************************************************************)
Val(t, n, s) == [t |-> t, n |-> n, s |-> s]

FloatV(n) == Val("float", n, "")

IntV(n) == Val("int", n, "")

BoolV(b) == Val("bool", IF b THEN 1 ELSE 0, "")

StrV(s) == Val("str", 0, s)

\* The parameter is not in the params map / the default is None.
Absent == Val("absent", 0, "")

None == Val("None", 0, "")

Bound(n) == [given |-> TRUE, v |-> n]

NoBound == [given |-> FALSE, v |-> 0]

\* param(name, type=..., min=..., max=..., default=..., choices=...): a
\* default makes the parameter optional.
param(name, type, min, max, default, required, choices) ==
    [name |-> name, type |-> type, min |-> min, max |-> max, default |-> default,
     required |-> (required /\ default = None), choices |-> choices]

ParamNames == {"rpm", "ramp_time", "mode", "count"}

\* CommandRegistry._commands: the commands a device registers.
Registry ==
    [ set_speed |-> << param("rpm", "float", Bound(0), Bound(10000), None, TRUE, {}),
                       param("ramp_time", "float", NoBound, NoBound, FloatV(1), TRUE, {}) >>,
      set_mode  |-> << param("mode", "enum", NoBound, NoBound, None, TRUE, {"cw", "ccw"}),
                       param("count", "int", Bound(1), Bound(5), None, FALSE, {}) >>,
      home      |-> << >> ]

Err(kind, name, bound) == [kind |-> kind, param |-> name, bound |-> bound]

NoErr == Err("", "", 0)

Verdict(ok, err) == [ok |-> ok, err |-> err]

\* isinstance(value, (int, float)): bool is a subclass of int.
IsNumber(value) == value.t \in {"int", "float", "bool"}

\* ParamDescriptor.validate: (ok, error_message)
validate(desc, value) ==
    IF desc.type = "float"
    THEN IF ~IsNumber(value)
         THEN Verdict(FALSE, Err("Expected number", desc.name, 0))
         ELSE IF desc.min.given /\ value.n < desc.min.v
         THEN Verdict(FALSE, Err("must be >=", desc.name, desc.min.v))
         ELSE IF desc.max.given /\ value.n > desc.max.v
         THEN Verdict(FALSE, Err("must be <=", desc.name, desc.max.v))
         ELSE Verdict(TRUE, NoErr)
    ELSE IF desc.type = "int"
    THEN IF value.t # "int"
         THEN Verdict(FALSE, Err("Expected integer", desc.name, 0))
         ELSE IF desc.min.given /\ value.n < desc.min.v
         THEN Verdict(FALSE, Err("must be >=", desc.name, desc.min.v))
         ELSE IF desc.max.given /\ value.n > desc.max.v
         THEN Verdict(FALSE, Err("must be <=", desc.name, desc.max.v))
         ELSE Verdict(TRUE, NoErr)
    ELSE IF desc.type = "string"
    THEN IF value.t # "str"
         THEN Verdict(FALSE, Err("Expected string", desc.name, 0))
         ELSE Verdict(TRUE, NoErr)
    ELSE IF desc.type = "bool"
    THEN IF value.t # "bool"
         THEN Verdict(FALSE, Err("Expected boolean", desc.name, 0))
         ELSE Verdict(TRUE, NoErr)
    ELSE IF desc.type = "enum"
    THEN IF desc.choices # {} /\ ~(value.t = "str" /\ value.s \in desc.choices)
         THEN Verdict(FALSE, Err("must be one of", desc.name, 0))
         ELSE Verdict(TRUE, NoErr)
    ELSE Verdict(TRUE, NoErr)

NoKwargs == [n \in ParamNames |-> Absent]

HasDefault_mut(desc) == FALSE

\* elif param_desc.default is not None
HasDefault(desc) == desc.default # None

\* The loop of execute over cmd.params: the kwargs built, or the first error.
RECURSIVE BuildKwargs(_, _, _)
BuildKwargs(descs, params, kwargs) ==
    IF descs = <<>> THEN [ok |-> TRUE, err |-> NoErr, kwargs |-> kwargs]
    ELSE LET desc == Head(descs)
         IN  IF params[desc.name] # Absent
             THEN IF validate(desc, params[desc.name]).ok
                  THEN BuildKwargs(Tail(descs), params,
                                   [kwargs EXCEPT ![desc.name] = params[desc.name]])
                  ELSE [ok |-> FALSE, err |-> validate(desc, params[desc.name]).err,
                        kwargs |-> kwargs]
             ELSE IF HasDefault(desc)
             THEN BuildKwargs(Tail(descs), params,
                              [kwargs EXCEPT ![desc.name] = desc.default])
             ELSE IF desc.required
             THEN [ok |-> FALSE, err |-> Err("Missing required parameter", desc.name, 0),
                   kwargs |-> kwargs]
             ELSE BuildKwargs(Tail(descs), params, kwargs)

Params(rpm, ramp_time, mode, count) ==
    [n \in ParamNames |->
        IF n = "rpm" THEN rpm ELSE IF n = "ramp_time" THEN ramp_time
        ELSE IF n = "mode" THEN mode ELSE count]

\* The typed_command frames the backend sends: [name, params].
Calls ==
    { [name |-> "set_speed", params |-> Params(rpm, ramp, Absent, Absent)] :
        rpm \in {Absent, FloatV(5000), IntV(10000), FloatV(12000), FloatV(-1),
                 BoolV(TRUE), StrV("up")},
        ramp \in {Absent, FloatV(2), None} }
    \cup { [name |-> "set_mode", params |-> Params(Absent, Absent, mode, count)] :
        mode \in {Absent, StrV("cw"), StrV("up"), IntV(1)},
        count \in {Absent, IntV(3), IntV(9), BoolV(TRUE), FloatV(2)} }
    \cup { [name |-> n, params |-> Params(FloatV(5000), Absent, Absent, Absent)] :
        n \in {"home", "bogus"} }

IsRegistered(name) == name \in DOMAIN Registry

\* The command_result frame
ResultFrame(id, event, err) == [id |-> id, event |-> event, error |-> err]

ResultSend(frame) == results' = Append(results, [frame |-> frame, ok |-> ws_open])

TypedCall(pc, name, params, id, kwargs) ==
    [pc |-> pc, name |-> name, params |-> params, id |-> id, kwargs |-> kwargs,
     invoked |-> FALSE, handler |-> "", exc |-> "", raised |-> "", n |-> IF tc.pc = "idle" THEN 1 ELSE tc.n + 1]

\* CommandRegistry.execute up to the ack: lookup and validation; an error
\* frame is sent for the first failure.
Typed_Execute(name, params, id) ==
    /\ tc.pc \in {"idle", "done"}
    /\ tc.pc = "done" => tc.n < MaxCalls
    /\ IF ~IsRegistered(name)
       THEN /\ tc' = [TypedCall("done", name, params, id, NoKwargs)
                        EXCEPT !.raised = IF ws_open THEN "" ELSE "ConnectionClosed"]
            /\ results' = << [frame |-> ResultFrame(id, "error", Err("Unknown command", "", 0)),
                              ok |-> ws_open] >>
       ELSE LET built == BuildKwargs(Registry[name], params, NoKwargs)
            IN  IF ~built.ok
                THEN /\ tc' = [TypedCall("done", name, params, id, NoKwargs)
                                 EXCEPT !.raised = IF ws_open THEN "" ELSE "ConnectionClosed"]
                     /\ results' = << [frame |-> ResultFrame(id, "error", built.err),
                                       ok |-> ws_open] >>
                ELSE /\ tc' = TypedCall("ack", name, params, id, built.kwargs)
                     /\ results' = <<>>

\* await ws.send(ack): outside the try, a failed send raises out of execute.
Typed_SendAck ==
    /\ tc.pc = "ack"
    /\ ResultSend(ResultFrame(tc.id, "ack", NoErr))
    /\ tc' = IF ws_open THEN [tc EXCEPT !.pc = "handler"]
             ELSE [tc EXCEPT !.pc = "done", !.raised = "ConnectionClosed"]

\* A variant that lets the handler's exception out of execute.
HandlerRaised_mut(act) ==
    [act EXCEPT !.pc = "done", !.invoked = TRUE, !.handler = "raised",
                !.raised = "handler"]

\* except Exception as e: the handler's exception is caught.
HandlerRaised(act) ==
    [act EXCEPT !.pc = "error", !.invoked = TRUE, !.handler = "raised", !.exc = "handler"]

\* result = cmd.handler(**kwargs): the handler returns a value json.dumps
\* accepts, returns one it raises TypeError for, or raises.
Typed_Handler(outcome) ==
    /\ tc.pc = "handler"
    /\ tc' = IF outcome = "raised" THEN HandlerRaised(tc)
             ELSE IF outcome = "unserializable"
             THEN [tc EXCEPT !.pc = "error", !.invoked = TRUE, !.handler = outcome,
                             !.exc = "json.dumps"]
             ELSE [tc EXCEPT !.pc = "result", !.invoked = TRUE, !.handler = outcome]
    /\ UNCHANGED results

\* await ws.send(result), inside the try: a failed send goes to the except clause.
Typed_SendResult ==
    /\ tc.pc = "result"
    /\ ResultSend(ResultFrame(tc.id, "result", NoErr))
    /\ tc' = IF ws_open THEN [tc EXCEPT !.pc = "done"]
             ELSE [tc EXCEPT !.pc = "error", !.exc = "ws.send"]

\* except Exception as e: await ws.send(error)
Typed_SendError ==
    /\ tc.pc = "error"
    /\ ResultSend(ResultFrame(tc.id, "error", Err("str(e)", tc.exc, 0)))
    /\ tc' = [tc EXCEPT !.pc = "done",
                        !.raised = IF ws_open THEN "" ELSE "ConnectionClosed"]

NextTyped ==
    \/ \E c \in Calls, id \in CmdIds :
          Typed_Execute(c.name, c.params, id)
          /\ UNCHANGED <<bufVars, clientVars, execVars, connVars, streamVars, sessVars, histVars, osVars, fnVars, lockVars, wireVars>>
    \/ Typed_SendAck /\ UNCHANGED <<bufVars, clientVars, execVars, connVars, streamVars, sessVars, histVars, osVars, fnVars, lockVars, wireVars>>
    \/ \E outcome \in {"returned", "unserializable", "raised"} :
          Typed_Handler(outcome)
          /\ UNCHANGED <<bufVars, clientVars, execVars, connVars, streamVars, sessVars, histVars, osVars, fnVars, lockVars, wireVars>>
    \/ Typed_SendResult /\ UNCHANGED <<bufVars, clientVars, execVars, connVars, streamVars, sessVars, histVars, osVars, fnVars, lockVars, wireVars>>
    \/ Typed_SendError /\ UNCHANGED <<bufVars, clientVars, execVars, connVars, streamVars, sessVars, histVars, osVars, fnVars, lockVars, wireVars>>
    \/ WsClose /\ UNCHANGED <<bufVars, clientVars, connVars, streamVars, cmdVars, sessVars, histVars, osVars, fnVars, lockVars, wireVars>>

InitTyped == BufferIdle /\ ClientIdle /\ ExecIdle /\ ConnectorIdle /\ StreamIdle /\ TypedIdle /\ SessionIdle /\ FnIdle /\ LockIdle /\ WireIdle

SpecTyped == InitTyped /\ [][NextTyped]_vars

(***************************************************************************)
(* Sessions: Plexus.session and Plexus._make_point (plexus/client.py).     *)
(* One thread opens and leaves `with px.session(id)` blocks, which nest,   *)
(* and builds points in between.  The two notification POSTs change        *)
(* nothing: their exceptions are caught and logged.                        *)
(***************************************************************************)
SessionNames == {"run-a", "run-b"}

\* with self.session(id): the code before the yield
Session_Enter(id) ==
    /\ Len(scopes) < MaxDepth
    /\ session_id' = [set |-> TRUE, id |-> id]
    /\ scopes' = Append(scopes, id)
    /\ UNCHANGED <<point, exited>>

\* finally: ... self._session_id = None
SessionAfterExit(open) == NoSession

\* The innermost block is left, by the end of its body or by an exception
\* raised in it: the finally clause runs in both cases.
Session_Exit(how) ==
    /\ scopes # <<>>
    /\ session_id' = SessionAfterExit(scopes)
    /\ scopes' = SubSeq(scopes, 1, Len(scopes) - 1)
    /\ exited' = how
    /\ UNCHANGED point

\* _make_point: session_id is put into the point when self._session_id is truthy.
MakePoint ==
    /\ point' = [made |-> TRUE,
                 has |-> session_id.set /\ session_id.id # "",
                 session_id |-> IF session_id.set THEN session_id.id ELSE "",
                 scopes |-> scopes]
    /\ UNCHANGED <<session_id, scopes, exited>>

NextSession ==
    \/ \E id \in SessionNames :
          Session_Enter(id) /\ UNCHANGED <<bufVars, clientVars, execVars, connVars, streamVars, cmdVars, histVars, osVars, fnVars, lockVars, wireVars>>
    \/ \E how \in {"normal", "exception"} :
          Session_Exit(how) /\ UNCHANGED <<bufVars, clientVars, execVars, connVars, streamVars, cmdVars, histVars, osVars, fnVars, lockVars, wireVars>>
    \/ MakePoint /\ UNCHANGED <<bufVars, clientVars, execVars, connVars, streamVars, cmdVars, histVars, osVars, fnVars, lockVars, wireVars>>

InitSession ==
    BufferIdle /\ ClientIdle /\ ExecIdle /\ ConnectorIdle /\ StreamIdle /\ TypedIdle /\ SessionIdle /\ FnIdle /\ LockIdle /\ WireIdle

SpecSession == InitSession /\ [][NextSession]_vars

(***************************************************************************)
(* Properties of the buffer and of the ingest client                       *)
(***************************************************************************)
Min(a, b) == IF a < b THEN a ELSE b

\* A call of _send_points by t has ended in the given way and t has not
\* started anything since.
Ended(t, kind) == call[t].pc = "done" /\ result[t].kind = kind

\* C1: a send that ends by retry exhaustion leaves the buffer holding the
\* previous content followed by the new points P of the call, once each, cut
\* to the newest max_size entries; so the buffer ends with P in order, its
\* size is at most the capacity, and the error raised is the last one set.
C1_ExhaustedSendBuffersNewPoints ==
    \A t \in threads :
        Ended(t, "exhausted") =>
            LET P == result[t].points
                B == result[t].snapshot
            IN  /\ get_all = LastN(B \o P, max_size)
                /\ LastN(get_all, Len(P)) = LastN(P, max_size)
                /\ size <= max_size
                /\ result[t].error = LastError(call[t].outcome)
                /\ call[t].posts = max_retries + 1

\* C2: a successful send leaves the buffer empty, and the body the backend
\* accepted is the previously buffered points followed by the new points.
C2_SuccessClearsBufferAfterFullBatch ==
    \A t \in threads :
        Ended(t, "True") =>
            /\ size = 0
            /\ get_all = <<>>
            /\ last_body[t] = result[t].snapshot \o result[t].points

C2_Witness ==
    \E t \in threads :
        /\ Ended(t, "True")
        /\ result[t].snapshot # <<>>
        /\ result[t].points # <<>>
        /\ size = 0

\* Points are numbered in creation order.
InCreationOrder(body) ==
    \A i, j \in 1..Len(body) : i < j => body[i].value < body[j].value

\* C3: every POST of a call carries the buffer snapshot taken at entry
\* followed by the new points, the same list on every attempt and in creation
\* order; with capacity 3, after the sends of points 1, 2, 3, 4 failed from an
\* empty buffer, the send of point 5 posts exactly <<2, 3, 4, 5>> and, when it
\* succeeds, leaves the buffer empty.
C3_FifoAcrossRetryCycles ==
    \A t \in threads :
        call[t].posts > 0 =>
            /\ last_body[t] = result[t].snapshot \o result[t].points
            /\ InCreationOrder(last_body[t])
            /\ ( /\ max_size = 3
                 /\ failed_run = [i \in 1..4 |-> Point(i)]
                 /\ result[t].points = <<Point(5)>> )
               => /\ last_body[t] = <<Point(2), Point(3), Point(4), Point(5)>>
                  /\ Ended(t, "True") => get_all = <<>>

\* The replay after an outage: the accepted body of send(5) is <<2, 3, 4, 5>>.
C3_Witness ==
    \E t \in threads :
        /\ Ended(t, "True")
        /\ max_size = 3
        /\ call[t].posts > 1
        /\ last_body[t] = <<Point(2), Point(3), Point(4), Point(5)>>
        /\ result[t].points = <<Point(5)>>
        /\ get_all = <<>>

\* C4: once add has been called on the live buffer instance, size() is at
\* most its max_size, whatever was added, cleared, closed and reopened before.
C4_SizeNeverExceedsMaxSize ==
    (conn_open /\ added_since_open) => size <= max_size

\* C5: after add(P) on a buffer holding B with capacity C, get_all() is the
\* last min(|B| + |P|, C) elements of B ++ P and size() is that length.
C5_AddKeepsNewest ==
    last_add.valid =>
        LET all == last_add.before \o last_add.points
            n == Min(Len(all), last_add.cap)
        IN  /\ get_all = LastN(all, n)
            /\ size = n

\* C6: once every call has returned, each point of a send that ended by
\* retry exhaustion is in an accepted batch, or was evicted for capacity, or
\* is still in the buffer.
C6_AtLeastOnceUnderConcurrency ==
    (\A t \in threads : call[t].pc \in {"idle", "done"}) =>
        pending \subseteq Range(get_all)

(***************************************************************************)
(* Properties of the shell executor                                        *)
(***************************************************************************)
AllowlistConfigured == allowlist.given /\ allowlist.patterns # <<>>

DenyMatch(command) == \E i \in 1..Len(denylist) : Matches(command, denylist[i])

AllowMatch(command) ==
    \E i \in 1..Len(allowlist.patterns) : Matches(command, allowlist.patterns[i])

\* The policy as the specification states it.
Permitted(command) ==
    AllowlistConfigured /\ ~DenyMatch(command) /\ AllowMatch(command)

Events(evs) == {i \in 1..Len(out) : out[i].frame.event \in evs}

\* C7: execute spawns a process only if the allowlist is non-empty, the
\* command matches no denylist pattern and matches an allowlist pattern; any
\* other non-empty command gets exactly one error frame whose text starts with
\* "Command rejected: ", no ack, no start and no process, and with no
\* allowlist the reason is "Shell execution disabled (no allowlist configured)".
C7_SpawnOnlyIfPermitted ==
    ex.pc # "idle" =>
        /\ (ex.spawned \/ current_process = "Popen") => Permitted(ex.command)
        /\ (ex.command # <<>> /\ ~Permitted(ex.command)) =>
              /\ ex.pc = "done"
              /\ ~ex.spawned /\ current_process = "None" /\ proc = "none"
              /\ Len(out) = 1
              /\ out[1].frame.id = ex.id
              /\ out[1].frame.event = "error"
              /\ out[1].frame.text.prefix = "Command rejected: "
              /\ ~AllowlistConfigured =>
                    out[1].frame.text.reason =
                        Reason("Shell execution disabled (no allowlist configured)", <<>>)

\* The denylist wins: "rm -rf /" under the allowlist ["*"] and the default
\* denylist is rejected for its match of "rm -rf *".
C7_Witness ==
    /\ ex.pc = "done"
    /\ ex.command = <<"r", "m", " ", "-", "r", "f", " ", "/">>
    /\ AllowMatch(ex.command)
    /\ Len(out) = 1
    /\ out[1].frame.event = "error"
    /\ out[1].frame.text.reason =
          Reason("Command blocked by denylist: matches", DEFAULT_COMMAND_DENYLIST[1])
    /\ ~ex.spawned

Terminal == {"exit", "timeout", "error"}

\* C9: when execute has returned, exactly one frame among exit, timeout and
\* error was sent for the request, and if an ack was sent, a start was sent
\* before that terminal frame.
C9_ExactlyOneTerminalEvent ==
    (ex.pc = "done") =>
        /\ Cardinality(Events(Terminal)) = 1
        /\ \A i \in Events(Terminal) : out[i].frame.id = ex.id
        /\ Events({"ack"}) # {} =>
              \A i \in Events(Terminal) : \E j \in Events({"start"}) : j < i

(***************************************************************************)
(* Properties of the connector                                             *)
(***************************************************************************)
OutputFrames == {i \in 1..Len(out) : out[i].frame.event # "pong"}

\* C8: when the authenticated connector, which has no allowlist, has handled
\* an execute frame with a command, it has sent exactly one output frame, an
\* error with text "Command rejected: Shell execution disabled (no allowlist
\* configured)" and the id of the request, and it has spawned no process.
C8_ConnectorRejectsWithoutAllowlist ==
    (ex.pc = "done" /\ ex.command # <<>>) =>
        /\ Cardinality(OutputFrames) = 1
        /\ \A i \in OutputFrames :
              out[i].frame =
                 Frame(ex.id, "error",
                       [prefix |-> "Command rejected: ",
                        reason |-> Reason("Shell execution disabled (no allowlist configured)",
                                          <<>>)])
        /\ ~ex.spawned
        /\ proc = "none"

(***************************************************************************)
(* Properties of the stream manager                                        *)
(***************************************************************************)
\* The task is running and its next iteration finds its id registered.
Producing(i) ==
    /\ tasks[i].state = "running"
    /\ RegistryOf(tasks[i].kind)[tasks[i].id] # 0

ProducingFor(kind, id) ==
    {i \in TaskIds : tasks[i].kind = kind /\ tasks[i].id = id /\ Producing(i)}

\* C10: for each stream kind and each id, at most one task is running and
\* producing frames, also after a start for an id that is already active.
C10_AtMostOneStreamPerKindAndId ==
    \A kind \in {"sensor", "camera", "can"}, id \in SensorIds \cup CameraIds \cup Channels :
        Cardinality(ProducingFor(kind, id)) <= 1

\* C11: no sensor stream sends a telemetry frame after a stop_stream with
\* its id, or with "*", that followed its start has completed.
C11_NoTelemetryAfterStop ==
    \A i \in TaskIds : tasks[i].kind = "sensor" => ~tasks[i].late

\* C12: a running stream hands its batches to the persistence function if
\* and only if its own start command had store = true, whatever other streams
\* were started or stopped since.
C12_PersistsIffOwnStore ==
    \A i \in TaskIds :
        (tasks[i].state = "running" /\ tasks[i].kind # "camera") =>
            /\ tasks[i].persisted = "yes" => tasks[i].store
            /\ tasks[i].persisted = "no" => ~tasks[i].store

(***************************************************************************)
(* Properties of the typed commands                                        *)
(***************************************************************************)
\* The value has the declared type, is within the bounds and, for an enum,
\* is one of the choices.
ValueOk(desc, value) ==
    /\ desc.type = "float" => value.t \in {"int", "float"}
    /\ desc.type = "int" => value.t = "int"
    /\ desc.type = "string" => value.t = "str"
    /\ desc.type = "bool" => value.t = "bool"
    /\ desc.type = "enum" => (value.t = "str" /\ value.s \in desc.choices)
    /\ (desc.type \in {"float", "int"} /\ desc.min.given) => value.n >= desc.min.v
    /\ (desc.type \in {"float", "int"} /\ desc.max.given) => value.n <= desc.max.v

\* The call is one the registry has to refuse.
Refused(name, params) ==
    \/ ~IsRegistered(name)
    \/ /\ IsRegistered(name)
       /\ \E i \in 1..Len(Registry[name]) :
             LET desc == Registry[name][i]
             IN  \/ params[desc.name] # Absent /\ ~ValueOk(desc, params[desc.name])
                 \/ params[desc.name] = Absent /\ desc.default = None /\ desc.required

\* C13: a typed command with an unknown name, a supplied value that fails
\* validation or a missing required parameter gets exactly one command_result
\* frame, an error with the inbound id, no ack, and the handler is not invoked;
\* set_speed with rpm = 12000 gets the error "'rpm' must be <= 10000".
C13_InvalidCallGetsOneError ==
    (tc.pc # "idle" /\ Refused(tc.name, tc.params)) =>
        /\ tc.pc = "done"
        /\ ~tc.invoked
        /\ Len(results) = 1
        /\ results[1].frame.event = "error"
        /\ results[1].frame.id = tc.id
        /\ (tc.name = "set_speed" /\ tc.params["rpm"] = FloatV(12000)) =>
              results[1].frame.error = Err("must be <=", "rpm", 10000)

\* The call passed the lookup and the validation of execute.
Passed == IsRegistered(tc.name) /\ BuildKwargs(Registry[tc.name], tc.params, NoKwargs).ok

\* The frames of a call: ack, then the given outcome frame, both with the
\* inbound id.
AckThen(event, err) ==
    /\ Len(results) = 2
    /\ results[1].frame = ResultFrame(tc.id, "ack", NoErr)
    /\ results[2].frame = ResultFrame(tc.id, event, err)

Backoff(k) == IF 2^(k - 1) < 60 THEN 2^(k - 1) ELSE 60

\* C15: the sleep before a reconnect attempt, after k connections in a row
\* that failed or were active for at most 30 s, is min(2^(k-1), 60) seconds
\* times a jitter factor in [0.75, 1.25]; after a connection that was active
\* for more than 30 s it is at most 1.25 s.
C15_SleepFollowsBackoff ==
    conn.waited =>
        /\ 75 * Backoff(conn.k) <= 100 * conn.secs
        /\ 100 * conn.secs <= 125 * Backoff(conn.k)
        /\ conn.after_long => 100 * conn.secs <= 125

\* C16: on every connection, a frame is passed to a command handler only when
\* an authenticated frame was received before it on the same connection; what
\* an earlier connection received does not count.
C16_NoDispatchBeforeAuthenticated == conn.dispatched => conn.auth_seen

\* A later connection, after one that was authenticated, has received an
\* execute frame before any authenticated frame and has not dispatched it.
C16_Witness ==
    /\ conn.attempts > 0
    /\ conn.after_long
    /\ conn.pc = "recv"
    /\ ~conn.auth_seen
    /\ conn.last_frame = "execute"
    /\ ~conn.dispatched
    /\ ex.pc = "idle"

\* C17: when the connector has handled an error frame, it has left the
\* connection that produced it: connect() is no longer in the receive loop of
\* that connection.
C17_ErrorFrameLeavesConnection == conn.last_frame = "error" => conn.pc # "recv"

\* C18: no connection is ended by an error raised while one inbound frame was
\* handled (malformed JSON, a JSON value that is not an object, an exception of
\* the handler).
C18_FrameErrorIsIsolated == conn.exit # "frame"

\* C19: after disconnect() has returned, running and recording are false, the
\* stream registries are empty and no task of them runs, no CAN adapter
\* instance is registered, no shell process is alive, the socket is closed and
\* connect() is not in the receive loop of a connection.
C19_DisconnectReleasesEverything ==
    ~running =>
        /\ ~recording
        /\ Registered(active_streams) = {}
        /\ Registered(active_camera_streams) = {}
        /\ Registered(active_can_streams) = {}
        /\ \A i \in TaskIds : tasks[i].state # "running"
        /\ Registered(can_instances) = {}
        /\ proc # "alive"
        /\ ~ws_open
        /\ conn.pc # "recv"

(***************************************************************************)
(* Claims about the fail-fast statuses of _send_points (SpecClient).       *)
(***************************************************************************)
FailFast == {400, 401, 403, 422}

\* C20: when a POST of _send_points is answered with 400, 401, 403 or 422, on
\* whatever attempt, the call makes no further POST (it has made one POST per
\* attempt so far, exactly one on the first attempt) and raises at once:
\* AuthenticationError for 401 and 403, PlexusError for 400 and 422.
C20_FailFastStatusesAreNotRetried ==
    \A t \in threads :
        (/\ call[t].pc # "idle"
         /\ call[t].outcome.kind = "response"
         /\ call[t].outcome.status \in FailFast) =>
            /\ call[t].pc = "done"
            /\ call[t].posts = call[t].attempt + 1
            /\ result[t].kind = "raised"
            /\ result[t].error.type =
                  IF call[t].outcome.status \in {401, 403}
                  THEN "AuthenticationError" ELSE "PlexusError"

\* A call whose retry, after a first attempt that failed in a retryable way,
\* was answered with 422.
C20_Witness ==
    \E t \in threads :
        /\ call[t].pc = "done"
        /\ call[t].outcome = [kind |-> "response", status |-> 422]
        /\ call[t].posts = 2
        /\ result[t].kind = "raised"
        /\ result[t].error.type = "PlexusError"

(***************************************************************************)
(* Claims about the retry loop of _send_points (SpecClient).               *)
(***************************************************************************)
\* Attempt i of the call got a status below 400 after retryable failures only.
SucceededAt(t, i) ==
    /\ call[t].hist[i] = "success"
    /\ \A j \in 1..(i - 1) : call[t].hist[j] = "retryable"

\* C21: with max_retries = R a call makes at most R + 1 POSTs and is in the
\* retry loop only while an attempt is left; it returns True exactly when
\* some attempt got a status below 400 after retryable failures only, and that
\* attempt is its last POST.
C21_AtMostRPlusOnePostsTrueOnSuccess ==
    \A t \in threads :
        call[t].pc # "idle" =>
            /\ Len(call[t].hist) <= max_retries + 1
            /\ call[t].posts = Len(call[t].hist)
            /\ call[t].pc = "post" => Len(call[t].hist) <= max_retries
            /\ \A i \in 1..Len(call[t].hist) :
                  SucceededAt(t, i) =>
                     /\ i = Len(call[t].hist)
                     /\ call[t].pc \in {"clear", "done"}
                     /\ call[t].pc = "done" => result[t].kind = "True"
            /\ result[t].kind = "True" =>
                  \E i \in 1..Len(call[t].hist) : SucceededAt(t, i)

\* max_retries = 2: two retryable failures, the second a timeout, then 200,
\* and the call has returned True after three POSTs.
C21_Witness ==
    \E t \in threads :
        /\ max_retries = 2
        /\ call[t].pc = "done"
        /\ result[t].kind = "True"
        /\ call[t].hist = <<"retryable", "retryable", "success">>
        /\ call[t].last_error.msg = "Request timed out"
        /\ call[t].outcome = [kind |-> "response", status |-> 200]

(***************************************************************************)
(* Claims about the client's max_buffer_size attribute (SpecClientAttr).   *)
(***************************************************************************)
\* C22: when a send has failed by retry exhaustion, buffer_size() is at most
\* the client's max_buffer_size as it is set at that moment, also when the
\* attribute was lowered after construction.
C22_BufferWithinCurrentMaxBufferSize ==
    \A t \in threads :
        result[t].kind = "exhausted" => size <= max_buffer_size

(***************************************************************************)
(* Claims about SqliteBuffer across instances (SpecBuffer).                *)
(***************************************************************************)
\* C23: a SqliteBuffer opened on the file of a closed instance returns from
\* get_all() exactly the entries that instance held at close(), in the same
\* order, whatever adds and clears came before.
C23_ReopenReturnsEntriesHeldAtClose ==
    (backend = "sqlite" /\ conn_open /\ at_close.valid) =>
        get_all = at_close.content

\* A reopened buffer that returns the three points its predecessor held.
C23_Witness ==
    /\ backend = "sqlite"
    /\ conn_open
    /\ at_close.valid
    /\ Len(at_close.content) = 3
    /\ get_all = at_close.content

(***************************************************************************)
(* Plexus._normalize_ts_ms (plexus/client.py).  A timestamp is the number  *)
(* M * 10^6 + u + f / 10^4 with 0 <= u < 10^6 and 0 <= f < 10^4, kept in   *)
(* three parts so that values around 10^12 can be computed with; given is  *)
(* FALSE for None.  The arithmetic is exact: the rounding of binary        *)
(* floating point is not modelled.                                         *)
(***************************************************************************)
Timestamp(given, M, u, f) == [given |-> given, M |-> M, u |-> u, f |-> f]

Timestamps ==
    { Timestamp(TRUE, M, u, f) :
         M \in {0, 1, 1700, 999999, 1000000, 1000001, 1700000},
         u \in {0, 1, 500000, 999999},
         f \in {0, 5, 10, 9999} }
    \cup { Timestamp(FALSE, 0, 0, 0) }

\* time.time() * 1000 at the moment of the call
Now == {Timestamp(TRUE, 1700000, 123456, 7890), Timestamp(TRUE, 1800000, 0, 0)}

\* A variant that takes exactly 10^12 for seconds.
Below1e12_mut(t) == t.M < 1000000 \/ (t.M = 1000000 /\ t.u = 0 /\ t.f = 0)

\* timestamp < 1e12
Below1e12(t) == t.M < 1000000

\* timestamp > 0
Positive(t) == t.M > 0 \/ t.u > 0 \/ t.f > 0

\* int(timestamp)
IntOf(t) == Timestamp(TRUE, t.M, t.u, 0)

\* timestamp * 1000
Times1000(t) ==
    LET low == 1000 * t.u + t.f \div 10
    IN  Timestamp(TRUE, 1000 * t.M + low \div 1000000, low % 1000000, 1000 * (t.f % 10))

Plexus__normalize_ts_ms(timestamp, now) ==
    IF ~timestamp.given THEN IntOf(now)
    ELSE IF Positive(timestamp) /\ Below1e12(timestamp) THEN IntOf(Times1000(timestamp))
    ELSE IntOf(timestamp)

Normalize ==
    /\ ret = <<>>
    /\ \E now \in Now : ret' = <<Plexus__normalize_ts_ms(arg, now)>>
    /\ UNCHANGED <<arg, bufVars, clientVars, execVars, connVars, streamVars, cmdVars,
                   sessVars, histVars, osVars, lockVars, wireVars>>

NextTimestamp == Normalize

InitTimestamp ==
    /\ arg \in Timestamps /\ ret = <<>>
    /\ BufferIdle /\ ClientIdle /\ ExecIdle /\ ConnectorIdle /\ StreamIdle /\ TypedIdle
    /\ SessionIdle /\ LockIdle /\ WireIdle

SpecTimestamp == InitTimestamp /\ [][NextTimestamp]_vars

(***************************************************************************)
(* RetryConfig.get_delay.  Delays are counted in hundredths of a second;   *)
(* random.random() returns k / RandomSteps for some k in 0..RandomSteps-1, *)
(* a value in [0, 1).  A delay is the fraction num / den.                  *)
(***************************************************************************)
RetryConfig(base_delay, max_delay, exponential_base, jitter) ==
    [base_delay |-> base_delay, max_delay |-> max_delay,
     exponential_base |-> exponential_base, jitter |-> jitter]

RetryConfigs ==
    { RetryConfig(b, m, e, j) : b \in {0, 1, 100, 1000}, m \in {1500, 3000},
                                e \in {1, 2, 3}, j \in BOOLEAN }

RECURSIVE Power(_, _)
Power(base, n) == IF n = 0 THEN 1 ELSE base * Power(base, n - 1)

Capped_mut(delay, max_delay) == delay

Capped(delay, max_delay) == IF max_delay < delay THEN max_delay ELSE delay

Jittered(delay, k) == [num |-> delay * (RandomSteps + k), den |-> 2 * RandomSteps]

RetryConfig_get_delay(self, attempt, k) ==
    LET delay == Capped(self.base_delay * Power(self.exponential_base, attempt),
                        self.max_delay)
    IN  IF self.jitter THEN Jittered(delay, k) ELSE [num |-> delay, den |-> 1]

GetDelay ==
    /\ ret = <<>>
    /\ \E k \in 0 .. RandomSteps - 1 :
          ret' = <<RetryConfig_get_delay(arg.config, arg.attempt, k)>>
    /\ UNCHANGED <<arg, bufVars, clientVars, execVars, connVars, streamVars,
                   cmdVars, sessVars, histVars, osVars, lockVars, wireVars>>

NextDelay == GetDelay

InitDelay ==
    /\ arg \in { [config |-> c, attempt |-> n] : c \in RetryConfigs, n \in 0 .. MaxAttempt }
    /\ ret = <<>>
    /\ BufferIdle /\ ClientIdle /\ ExecIdle /\ ConnectorIdle /\ StreamIdle
    /\ TypedIdle /\ SessionIdle /\ LockIdle /\ WireIdle

SpecDelay == InitDelay /\ [][NextDelay]_vars

(***************************************************************************)
(* Two threads on one buffer (plexus/buffer.py): one calls add(points),    *)
(* the other clear().  Every statement inside `with self._lock` is a step  *)
(* of its own, so that what the lock excludes is visible.                  *)
(***************************************************************************)
\* A variant in which the lock excludes nobody.
Free_mut(holder) == TRUE

\* with self._lock: the lock can be taken when no thread holds it.
Free(holder) == holder = ""

Adding(pc, points, overflow, tmp) ==
    [pc |-> pc, points |-> points, overflow |-> overflow, tmp |-> tmp]

\* add(points) up to `with self._lock`; SqliteBuffer.add returns before it
\* when the list is empty.
Add_Acquire ==
    /\ adding.pc = "call"
    /\ IF backend = "sqlite" /\ adding.points = <<>>
       THEN /\ adding' = [adding EXCEPT !.pc = "done"]
            /\ UNCHANGED lock
       ELSE /\ Free(lock)
            /\ lock' = "add"
            /\ adding' = [adding EXCEPT !.pc = "extend"]
    /\ UNCHANGED <<clearing, bufVars>>

\* self._buffer.extend(points) / executemany(INSERT ...); commit()
Add_Extend ==
    /\ adding.pc = "extend"
    /\ mem_buffer' = IF backend = "memory" THEN mem_buffer \o adding.points
                     ELSE mem_buffer
    /\ db' = IF backend = "sqlite" THEN SqliteBuffer_insert(db, adding.points) ELSE db
    /\ added_since_open' = TRUE
    /\ adding' = [adding EXCEPT !.pc = "test"]
    /\ UNCHANGED <<lock, clearing, backend, max_size, conn_open, next_point,
                   last_add, at_close>>

\* if len(self._buffer) > self._max_size: overflow = ...
\* _evict: count = SELECT COUNT(*); if count > self._max_size: overflow = ...
Add_Test ==
    /\ adding.pc = "test"
    /\ adding' = IF size > max_size
                 THEN [adding EXCEPT !.pc = "trim", !.overflow = size - max_size]
                 ELSE [adding EXCEPT !.pc = "release"]
    /\ UNCHANGED <<lock, clearing, bufVars>>

\* The right-hand side self._buffer[overflow:] is evaluated.
Add_Slice ==
    /\ adding.pc = "trim"
    /\ backend = "memory"
    /\ adding' = [adding EXCEPT !.pc = "assign",
                                !.tmp = MemoryBuffer_slice(mem_buffer, adding.overflow)]
    /\ UNCHANGED <<lock, clearing, bufVars>>

\* self._buffer = <the slice>
Add_Assign ==
    /\ adding.pc = "assign"
    /\ mem_buffer' = adding.tmp
    /\ adding' = [adding EXCEPT !.pc = "release"]
    /\ UNCHANGED <<lock, clearing, backend, max_size, db, conn_open, next_point,
                   last_add, added_since_open, at_close>>

\* DELETE FROM points WHERE id IN (SELECT id ... ORDER BY id LIMIT overflow)
Add_Delete ==
    /\ adding.pc = "trim"
    /\ backend = "sqlite"
    /\ LET del == SqliteBuffer_oldest_ids(db.rows, Min(adding.overflow, Len(db.rows)))
       IN  db' = [db EXCEPT !.rows = SelectSeq(db.rows, LAMBDA r : r.id \notin del)]
    /\ adding' = [adding EXCEPT !.pc = "release"]
    /\ UNCHANGED <<lock, clearing, backend, max_size, mem_buffer, conn_open,
                   next_point, last_add, added_since_open, at_close>>

\* The `with` block of add is left.
Add_Release ==
    /\ adding.pc = "release"
    /\ lock' = ""
    /\ adding' = [adding EXCEPT !.pc = "done"]
    /\ UNCHANGED <<clearing, bufVars>>

\* clear(): with self._lock
Clear_Acquire ==
    /\ clearing.pc = "call"
    /\ Free(lock)
    /\ lock' = "clear"
    /\ clearing' = [clearing EXCEPT !.pc = "clear"]
    /\ UNCHANGED <<adding, bufVars>>

\* self._buffer.clear() / DELETE FROM points; commit()
Clear_Do ==
    /\ clearing.pc = "clear"
    /\ DoClear
    /\ clearing' = [clearing EXCEPT !.pc = "release"]
    /\ UNCHANGED <<lock, adding, backend, max_size, conn_open, next_point,
                   last_add, added_since_open, at_close>>

\* The `with` block of clear is left.
Clear_Release ==
    /\ clearing.pc = "release"
    /\ lock' = ""
    /\ clearing' = [clearing EXCEPT !.pc = "done"]
    /\ UNCHANGED <<adding, bufVars>>

AroundBuffer ==
    <<clientVars, execVars, connVars, streamVars, cmdVars, sessVars, histVars,
      osVars, fnVars, wireVars>>

NextBufferConc ==
    \/ Add_Acquire /\ UNCHANGED AroundBuffer
    \/ Add_Extend /\ UNCHANGED AroundBuffer
    \/ Add_Test /\ UNCHANGED AroundBuffer
    \/ Add_Slice /\ UNCHANGED AroundBuffer
    \/ Add_Assign /\ UNCHANGED AroundBuffer
    \/ Add_Delete /\ UNCHANGED AroundBuffer
    \/ Add_Release /\ UNCHANGED AroundBuffer
    \/ Clear_Acquire /\ UNCHANGED AroundBuffer
    \/ Clear_Do /\ UNCHANGED AroundBuffer
    \/ Clear_Release /\ UNCHANGED AroundBuffer

\* A buffer that holds b points, a thread about to add k new ones and a
\* thread about to clear.
InitBufferConc ==
    /\ backend \in {"memory", "sqlite"}
    /\ max_size \in 0 .. MaxCapacity
    /\ \E b \in 0 .. max_size, k \in 0 .. MaxBatch :
          /\ mem_buffer = IF backend = "memory" THEN NewPoints(0, b) ELSE <<>>
          /\ db = IF backend = "sqlite"
                  THEN SqliteBuffer_insert([rows |-> <<>>, seq |-> 0], NewPoints(0, b))
                  ELSE [rows |-> <<>>, seq |-> 0]
          /\ next_point = b + k
          /\ adding = Adding("call", NewPoints(b, k), 0, <<>>)
    /\ clearing = [pc |-> "call"]
    /\ lock = ""
    /\ conn_open = TRUE
    /\ last_add = NoAdd
    /\ at_close = NoClose
    /\ added_since_open = FALSE
    /\ ClientIdle /\ ExecIdle /\ ConnectorIdle /\ StreamIdle /\ TypedIdle
    /\ SessionIdle /\ FnIdle /\ WireIdle

SpecBufferConc == InitBufferConc /\ [][NextBufferConc]_vars

(***************************************************************************)
(* The connector's own stream loops across connections                     *)
(* (plexus/connector.py).  _start_stream and _start_camera create tasks    *)
(* that send on self._ws, the socket of the latest connection; nothing     *)
(* cancels them when a connection ends.  wire records the frames sent on   *)
(* the current connection and the `authenticated` frames received on it.   *)
(***************************************************************************)
LoopKinds == {"sensor", "camera"}

\* The frame a loop sends: telemetry by stream_loop, video_frame by camera_loop.
StreamFrame(kind) == IF kind = "sensor" THEN "telemetry" ELSE "video_frame"

\* The loop a frame of the server starts, "" for the other frames.
Starts(type) ==
    IF type = "start_stream" /\ sensor_hub THEN "sensor"
    ELSE IF type = "start_camera" /\ camera_hub.given THEN "camera"
    ELSE ""

\* _handle_message for authenticated, start_stream and start_camera: the
\* handlers run only on an authenticated connection and register a new task.
Wire_Receive(type) ==
    /\ conn.pc = "recv"
    /\ ws_open
    /\ requests < MaxMessages
    /\ requests' = requests + 1
    /\ authenticated' = (authenticated \/ type = "authenticated")
    /\ wire' = IF type = "authenticated" THEN Append(wire, type) ELSE wire
    /\ loops' = IF authenticated /\ Starts(type) # ""
                THEN [loops EXCEPT ![Starts(type)] = "sleeping"]
                ELSE loops
    /\ conn' = Handled(conn, [type |-> type], authenticated /\ Starts(type) # "")
    /\ UNCHANGED <<allowlist, denylist, ex, current_process, proc, ws_open, running,
                   out, ws, streamVars>>

\* A loop wakes from asyncio.sleep and sends on self._ws; on a closed socket
\* the send raises and the task ends.
Loop_Send(kind) ==
    /\ loops[kind] = "sleeping"
    /\ Len(wire) < MaxFrames
    /\ IF ws_open
       THEN /\ wire' = Append(wire, StreamFrame(kind))
            /\ UNCHANGED loops
       ELSE /\ loops' = [loops EXCEPT ![kind] = "ended"]
            /\ UNCHANGED wire
    /\ UNCHANGED <<execVars, connVars, streamVars>>

\* connect(): a new socket is opened, self._ws = ws, and device_auth is sent
\* on it before anything is awaited.
Wire_Reconnect(connect_ok) ==
    /\ Reconnect(connect_ok)
    /\ wire' = IF running /\ connect_ok THEN <<"device_auth">> ELSE wire
    /\ UNCHANGED <<loops, streamVars>>

AroundWire == <<bufVars, clientVars, cmdVars, sessVars, histVars, osVars, fnVars, lockVars>>

NextReconnect ==
    \/ \E type \in {"authenticated", "start_stream", "start_camera"} :
          Wire_Receive(type) /\ UNCHANGED AroundWire
    \/ \E kind \in LoopKinds : Loop_Send(kind) /\ UNCHANGED AroundWire
    \/ WsClose /\ UNCHANGED <<connVars, streamVars, wireVars>> /\ UNCHANGED AroundWire
    \/ \E clean \in BOOLEAN :
          ConnectionLost(clean) /\ UNCHANGED <<bufVars, clientVars, streamVars, cmdVars>>
    \/ \E ok \in BOOLEAN : Wire_Reconnect(ok) /\ UNCHANGED AroundWire

\* The first connection has sent device_auth; the device has sensors and cameras.
InitReconnect ==
    /\ BufferIdle /\ ClientIdle /\ ExecIdle /\ ConnectorIdle
    /\ sensor_hub = TRUE
    /\ camera_hub = [given |-> TRUE, cameras |-> CameraIds]
    /\ can_adapters = {}
    /\ tasks = <<>>
    /\ active_streams = [i \in SensorIds |-> 0]
    /\ active_camera_streams = [i \in CameraIds |-> 0]
    /\ active_can_streams = [i \in Channels |-> 0]
    /\ can_instances = [i \in Channels |-> 0]
    /\ recording = FALSE
    /\ arrived = <<>>
    /\ last_status = ""
    /\ TypedIdle /\ SessionIdle /\ FnIdle /\ LockIdle
    /\ wire = <<"device_auth">>
    /\ loops = [k \in LoopKinds |-> "none"]

SpecReconnect == InitReconnect /\ [][NextReconnect]_vars

(***************************************************************************)
(* Claims about session scopes (SpecSession).                              *)
(***************************************************************************)
\* C24: a point built inside a session scope carries the session_id of the
\* innermost scope open at that moment, also after a nested scope has been
\* left; a point built outside every scope carries no session_id.
C24_PointsCarryCurrentScopeId ==
    point.made =>
        IF point.scopes = <<>>
        THEN ~point.has
        ELSE point.has /\ point.session_id = point.scopes[Len(point.scopes)]

(***************************************************************************)
(* Claims about stop commands (SpecStream).                                *)
(***************************************************************************)
\* The tasks of the streams a stop command names: those of the kind with the
\* id, or all of the kind for "*".
StreamTasks(kind, id) ==
    {i \in TaskIds : tasks[i].kind = kind /\ (id = "*" \/ tasks[i].id = id)}

\* The registry after the stop command.
RegistryAfterStop(registry, id) ==
    IF id = "*" THEN Cleared(registry) ELSE [registry EXCEPT ![id] = 0]

\* What a stop command of the kind does to the tasks: none of the streams it
\* names has a running task left, every other task is as it was.
StopsExactly(kind, id) ==
    /\ \A i \in StreamTasks(kind, id) : tasks'[i].state # "running"
    /\ \A i \in TaskIds \ StreamTasks(kind, id) : tasks'[i].state = tasks[i].state

\* Applied to this state, stop_stream("*"), stop_camera("*") or
\* stop_can_stream("*") changes nothing.
StopAllChangesNothing(kind) ==
    IF kind = "sensor"
    THEN /\ MarkStopped(CancelTasks(tasks, Registered(active_streams)), "*") = tasks
         /\ active_streams = Cleared(active_streams)
         /\ ~recording
    ELSE IF kind = "camera"
    THEN /\ CancelTasks(tasks, Registered(active_camera_streams)) = tasks
         /\ active_camera_streams = Cleared(active_camera_streams)
    ELSE /\ CancelTasks(tasks, Registered(active_can_streams)) = tasks
         /\ active_can_streams = Cleared(active_can_streams)
         /\ can_instances = Cleared(can_instances)

\* C25: a stop for an active id leaves no task of that stream running and
\* removes exactly that id from the registry of its kind; a stop for "*" leaves
\* no task of the kind running and empties the registry of the kind; the other
\* tasks and registries are as before; a second stop for "*" changes nothing.
C25_StopEndsExactlyTheNamedStreams ==
    [][ /\ \A id \in SensorIds \cup {"*"} :
              (stop_stream(id) /\ (id = "*" \/ active_streams[id] # 0)) =>
                  /\ StopsExactly("sensor", id)
                  /\ active_streams' = RegistryAfterStop(active_streams, id)
                  /\ UNCHANGED <<active_camera_streams, active_can_streams, can_instances>>
                  /\ id = "*" => StopAllChangesNothing("sensor")'
        /\ \A id \in CameraIds \cup {"*"} :
              (stop_camera(id) /\ (id = "*" \/ active_camera_streams[id] # 0)) =>
                  /\ StopsExactly("camera", id)
                  /\ active_camera_streams' = RegistryAfterStop(active_camera_streams, id)
                  /\ UNCHANGED <<active_streams, active_can_streams, can_instances>>
                  /\ id = "*" => StopAllChangesNothing("camera")'
        /\ \A id \in Channels \cup {"*"} :
              (stop_can_stream(id) /\ (id = "*" \/ active_can_streams[id] # 0)) =>
                  /\ StopsExactly("can", id)
                  /\ active_can_streams' = RegistryAfterStop(active_can_streams, id)
                  /\ UNCHANGED <<active_streams, active_camera_streams>>
                  /\ id = "*" => StopAllChangesNothing("can")'
      ]_vars

\* The id is not "*" and the registry holds no stream for it.
NotRegistered(registry, id) ==
    id # "*" /\ (id \notin DOMAIN registry \/ registry[id] = 0)

\* The state of the stream manager is as before; no task is cancelled.
ManagerUnchanged ==
    /\ UNCHANGED <<active_streams, active_camera_streams, active_can_streams,
                   can_instances, recording>>
    /\ \A i \in TaskIds : tasks'[i].state = tasks[i].state

\* C26: a stop_stream, stop_camera or stop_can for an id that is not "*" and
\* not in the registry of its kind changes nothing: the three registries, the
\* CAN adapter instances, the recording flag and the tasks are as before.
C26_StopOfUnknownIdChangesNothing ==
    [][ /\ \A id \in SensorIds \cup {"s9"} :
              (stop_stream(id) /\ NotRegistered(active_streams, id)) => ManagerUnchanged
        /\ \A id \in CameraIds \cup {"cam9"} :
              (stop_camera(id) /\ NotRegistered(active_camera_streams, id)) => ManagerUnchanged
        /\ \A id \in Channels \cup {"can9"} :
              (stop_can_stream(id) /\ NotRegistered(active_can_streams, id)) => ManagerUnchanged
      ]_vars

(***************************************************************************)
(* Claims about the order of start and stop (SpecStreamOrder).             *)
(***************************************************************************)
\* The two messages handled last are these, in this order, for the same id.
LastTwo(first, second, id) ==
    arrived = <<Arrival(first, id), Arrival(second, id)>>

\* The tasks of the sensor stream that are running.
RunningFor(id) ==
    {i \in TaskIds : tasks[i].kind = "sensor" /\ tasks[i].id = id /\ tasks[i].state = "running"}

\* C27: when a start_stream and a stop_stream for the same id have been
\* handled one after the other, the state is that of the later one: after the
\* stop the id is not registered, so no task sends for it; after the start
\* (with sensors configured) the id is registered and has exactly one running task.
C27_LaterMessageDecides ==
    \A id \in SensorIds :
        /\ LastTwo("start_stream", "stop_stream", id) => active_streams[id] = 0
        /\ (LastTwo("stop_stream", "start_stream", id) /\ sensor_hub) =>
               /\ active_streams[id] # 0
               /\ Cardinality(RunningFor(id)) = 1

(***************************************************************************)
(* Claims about camera streams (SpecCamera).                               *)
(***************************************************************************)
CameraTasks(id) == {i \in TaskIds : tasks[i].kind = "camera" /\ tasks[i].id = id}

\* The camera tasks that have called setup() and not yet cleanup().
Holding(id) == {i \in CameraTasks(id) : tasks[i].dev = "held"}

\* C28: a camera task that has called setup() calls cleanup() when it ends,
\* however it ends, so no ended task holds the camera; a cancelled task that
\* holds the camera eventually releases it; start_camera for an active id
\* returns with the old task ended and its camera released; and a camera is
\* never held by two tasks.
C28_SetupIsFollowedByCleanup ==
    /\ [](\A id \in CameraIds : Cardinality(Holding(id)) <= 1)
    /\ [](\A i \in TaskIds : tasks[i].state = "done" => tasks[i].dev # "held")
    /\ [][\A id \in CameraIds :
             (start_camera(id) /\ active_camera_streams[id] # 0 /\ Len(tasks') > Len(tasks)) =>
                 LET old == active_camera_streams[id]
                 IN  /\ tasks'[old].state = "done" /\ tasks'[old].dev # "held"
                     /\ tasks'[Len(tasks')].dev = "none"]_vars
    /\ \A i \in 1..MaxTasks :
          (i \in TaskIds /\ tasks[i].state = "cancelling" /\ tasks[i].dev = "held")
              ~> (i \in TaskIds /\ tasks[i].state = "done" /\ tasks[i].dev = "released")

\* A camera was restarted while its task held it: the old task has released
\* it and the new task holds it.
C28_Witness ==
    \E i, j \in CameraTasks("cam0") :
        /\ i < j
        /\ tasks[i].state = "done" /\ tasks[i].dev = "released"
        /\ tasks[j].state = "running" /\ tasks[j].dev = "held"
        /\ active_camera_streams["cam0"] = j

(***************************************************************************)
(* Claims about CAN streams (SpecCan).                                     *)
(***************************************************************************)
\* C29: start_can for a channel that was not detected, or whose interface is
\* down, emits a status message and changes nothing else: no adapter is
\* instantiated, no task is created or touched, the CAN registry, the adapter
\* instances and the rest of the manager are as before.
C29_StartCanOnUnavailableChannelOnlyReports ==
    [][\A ch \in Channels \cup {"can9"}, store \in BOOLEAN, ok \in BOOLEAN :
          ( /\ start_can_stream(ch, store, ok) /\ last_status' = start_can_status(ch, ok)
            /\ (~Detected(ch) \/ \E c \in can_adapters : c.channel = ch /\ ~c.is_up) ) =>
              /\ last_status' \in {"CAN channel not found", "CAN interface is down"}
              /\ UNCHANGED streamVars]_vars

\* start_can for a channel whose interface is down has been refused: the
\* status says so, and there is no task and no adapter instance.
C29_Witness ==
    /\ last_status = "CAN interface is down"
    /\ \E c \in can_adapters : ~c.is_up
    /\ tasks = <<>>
    /\ can_instances = Cleared(can_instances)

(***************************************************************************)
(* Claims about the command timeout (SpecExec).                            *)
(***************************************************************************)
\* C30: when the timeout expires while the output is still being read,
\* execute kills the process and sends a timeout frame for the id; after that
\* frame it sends no data and no exit frame; and when it has returned the
\* process slot is empty.
C30_TimeoutKillsAndEndsTheOutput ==
    /\ [][Timeout => /\ proc' # "alive"
                     /\ out' = Append(out, [frame |-> Frame(ex.id, "timeout", NoText),
                                            ok |-> ws_open])]_vars
    /\ [](\A i \in Events({"timeout"}) :
              /\ out[i].frame.id = ex.id
              /\ proc # "alive"
              /\ \A j \in Events({"data", "exit"}) : j < i
              /\ ex.pc = "done" => current_process = "None")

\* The command wrote a line, then the timeout expired: the data frame is
\* followed by the timeout frame, the process was killed, execute has returned.
C30_Witness ==
    /\ ex.pc = "done"
    /\ Len(out) = 4
    /\ out[3].frame.event = "data" /\ out[4].frame.event = "timeout" /\ out[4].ok
    /\ proc = "killed"
    /\ current_process = "None"

(***************************************************************************)
(* Claims about concurrent shell commands (SpecConnector).                 *)
(***************************************************************************)
\* The shell children of the agent that are alive.
AliveChildren == orphans + (IF proc = "alive" THEN 1 ELSE 0)

\* C31: at most one shell child of the agent is alive, and the tracked
\* process is not replaced while the child it refers to is running.
C31_AtMostOneShellChild ==
    /\ AliveChildren <= 1
    /\ current_process = "Popen" => orphans = 0

\* The cancel frame is handled while nothing runs.
IdleCancel ==
    /\ HandleMessage(Message("cancel", "", <<>>, FALSE))
    /\ current_process = "None"

\* C32: a cancel frame that arrived while the process of a shell command was
\* running is handled while it is still running and terminates it; a cancel
\* frame handled while no process runs changes nothing.
C32_CancelReachesTheRunningProcess ==
    /\ [](conn.cancel # "missed")
    /\ [][IdleCancel => UNCHANGED <<ex, current_process, proc, out, running, streamVars>>]_vars

(***************************************************************************)
(* Claims about timestamps (SpecTimestamp).                                *)
(***************************************************************************)
\* C33: a supplied timestamp t with 0 < t < 10^12 becomes the whole part of
\* t * 1000; a supplied timestamp t >= 10^12, exactly 10^12 included, becomes
\* the whole part of t; the result has no fraction.
C33_SecondsBelow1e12MillisecondsFrom1e12 ==
    (ret # <<>> /\ arg.given) =>
        LET r == ret[1]
        IN  /\ r.f = 0
            /\ (arg.M >= 1000000) => (r.M = arg.M /\ r.u = arg.u)
            /\ (arg.M < 1000000 /\ (arg.M > 0 \/ arg.u > 0 \/ arg.f > 0)) =>
                  /\ r.M - 1000 * arg.M \in 0..999
                  /\ (r.M - 1000 * arg.M) * 1000000 + r.u = 1000 * arg.u + arg.f \div 10

\* Exactly 10^12 was passed and came back unchanged.
C33_Witness ==
    /\ arg = Timestamp(TRUE, 1000000, 0, 0)
    /\ ret = <<Timestamp(TRUE, 1000000, 0, 0)>>


(***************************************************************************)
(* Claims about the retry delay (SpecDelay).                               *)
(***************************************************************************)
Unjittered(c, n) ==
    IF c.base_delay * Power(c.exponential_base, n) <= c.max_delay
    THEN c.base_delay * Power(c.exponential_base, n)
    ELSE c.max_delay

Documented(c, n) ==
    /\ (c.base_delay = 100 /\ c.exponential_base = 2 /\ c.max_delay = 3000 /\ n <= 3)
          => Unjittered(c, n) = <<100, 200, 400, 800>>[n + 1]
    /\ (c.base_delay = 1000 /\ c.exponential_base = 2 /\ c.max_delay = 1500 /\ n <= 2)
          => Unjittered(c, n) = <<1000, 1500, 1500>>[n + 1]

\* C34: without jitter get_delay(n) is min(base_delay * exponential_base^n,
\* max_delay) (1, 2, 4, 8 seconds for base 1 and factor 2; 10, 15, 15 for
\* base 10 and cap 15); with jitter the result lies between half of that
\* value and that value, and so never exceeds max_delay.
C34_DelayIsCappedExponential ==
    ret # <<>> =>
        LET c == arg.config
            d == Unjittered(c, arg.attempt)
            r == ret[1]
        IN  /\ Documented(c, arg.attempt)
            /\ ~c.jitter => (r.den = 1 /\ r.num = d)
            /\ c.jitter => /\ d * r.den <= 2 * r.num
                           /\ r.num <= d * r.den
                           /\ r.num <= c.max_delay * r.den

C34_Witness ==
    /\ ret # <<>>
    /\ arg.config.base_delay = 1000 /\ arg.config.max_delay = 1500
    /\ arg.config.exponential_base = 2 /\ arg.attempt = 1
    /\ arg.config.jitter
    /\ 4 * ret[1].num = 3 * 1500 * ret[1].den


(***************************************************************************)
(* Claims about the arguments of a typed command's handler (SpecTyped).    *)
(***************************************************************************)
Declared(name) == { Registry[name][i] : i \in 1 .. Len(Registry[name]) }

\* What the handler is to be called with: for each name, the value passed
\* or Absent when the name is not passed.
ArgumentsFor(name, params) ==
    [ n \in ParamNames |->
        IF \E desc \in Declared(name) : desc.name = n
        THEN LET desc == CHOOSE desc \in Declared(name) : desc.name = n
             IN  IF params[n] # Absent THEN params[n]
                 ELSE IF desc.default # None THEN desc.default
                 ELSE Absent
        ELSE Absent ]

AckSent == Len(results) >= 1 /\ results[1].frame.event = "ack" /\ results[1].ok

InvokedWithDeclaredArguments ==
    (tc.pc # "idle" /\ tc.invoked) => tc.kwargs = ArgumentsFor(tc.name, tc.params)

BothReturned == adding.pc = "done" /\ clearing.pc = "done"

\* C36: clear() is atomic with respect to a concurrent add(P): when both
\* have returned the buffer is empty (add took effect first) or holds
\* exactly the retained tail of P (clear took effect first), never a part
\* of that tail nor anything the buffer held before.
C36_ClearIsAtomicWithAdd ==
    /\ BothReturned =>
          \/ get_all = <<>>
          \/ get_all = LastN(adding.points, max_size)
    /\ ~(adding.pc \in {"extend", "test", "trim", "assign", "release"}
         /\ clearing.pc \in {"clear", "release"})

\* clear ran first on a buffer that held points, and add kept the tail of
\* more points than the buffer takes.
C36_Witness ==
    /\ BothReturned
    /\ adding.points # <<>>
    /\ adding.points[1].value > 1
    /\ Len(adding.points) > max_size
    /\ max_size > 0
    /\ get_all = LastN(adding.points, max_size)


(***************************************************************************)
(* Claims about a send that ends with a non-retryable error (SpecClient).  *)
(***************************************************************************)
\* A response with a 4xx status other than 429.
NonRetryable(o) ==
    o.kind = "response" /\ o.status >= 400 /\ o.status < 500 /\ o.status # 429

\* C37: when a send ends with a non-retryable error (400, 401, 403, 422 or
\* another 4xx except 429) the buffer is as it was before the call: the new
\* points are not added and the points buffered before stay, in their order.
C37_NonRetryableErrorLeavesBuffer ==
    \A t \in threads :
        (call[t].pc = "done" /\ NonRetryable(call[t].outcome)) =>
            /\ result[t].kind = "raised"
            /\ get_all = result[t].snapshot
            /\ Range(get_all) \cap Range(result[t].points) = {}

\* A 400 after a retried failure, on a buffer that held points.
C37_Witness ==
    \E t \in threads :
        /\ call[t].pc = "done"
        /\ call[t].outcome = [kind |-> "response", status |-> 400]
        /\ call[t].posts > 1
        /\ result[t].snapshot # <<>>
        /\ result[t].points # <<>>
        /\ get_all = result[t].snapshot


(***************************************************************************)
(* Claims about the stream registries and the tasks they hold (SpecStream).*)
(***************************************************************************)
StreamKinds == {"sensor", "camera", "can"}

\* The task registered for an id has not ended.
StillRunning(registry) ==
    \A id \in DOMAIN registry :
        registry[id] # 0 => tasks[registry[id]].state # "done"

\* C38: every id in a stream registry (sensor, camera, CAN) refers to a task
\* that is still running; a loop that ended on its own, by an exception of
\* the read, of the poll or of the send on a closed socket, leaves no stale
\* entry behind.
C38_RegisteredStreamsAreRunning ==
    \A kind \in StreamKinds : StillRunning(RegistryOf(kind))


\* C39: the adapter registered for a channel stays connected while the
\* channel's stream is registered and running: the cleanup that a cancelled
\* task of the channel runs when it ends, after stop_can and a new start_can
\* in any interleaving, never removes the adapter of the new stream.
C39_AdapterStaysWithRunningCanStream ==
    \A ch \in Channels :
        (active_can_streams[ch] # 0 /\ tasks[active_can_streams[ch]].state = "running")
            => can_instances[ch] = active_can_streams[ch]


(***************************************************************************)
(* Claims about the frames of one connection (SpecReconnect).              *)
(***************************************************************************)
\* C40: on every connection device_auth is the first frame the agent sends,
\* and no telemetry or video_frame frame is sent on it before authenticated
\* has been received on it, also not by stream tasks that were started on an
\* earlier connection and slept across the disconnect and reconnect.
C40_NoStreamFrameBeforeAuthenticated ==
    /\ wire # <<>> => wire[1] = "device_auth"
    /\ \A i \in 1 .. Len(wire) :
          wire[i] \in {"telemetry", "video_frame"} =>
              \E j \in 1 .. (i - 1) : wire[j] = "authenticated"

=============================================================================
